---- MODULE Spec2Model ----
(***************************************************************************)
(* A model of the NEAT library: the innovation registry (state.rs), the    *)
(* genome and its mutation / crossover operators (genome/genome.rs), the   *)
(* species record (species.rs) and the evolution loop (population.rs).     *)
(*                                                                         *)
(* Reals are modelled by integers: a weight is a multiple of one weight    *)
(* unit, a fitness a small integer, and a compatibility distance is kept   *)
(* as an exact fraction (numerator over a fixed denominator).  Every draw  *)
(* from a random number generator is a nondeterministic choice.            *)
(***************************************************************************)
EXTENDS Integers, Sequences, FiniteSets, TLC

VARIABLES
  innovation,   \* Population.innovation : InnovationRecord (state.rs)
  reg_call,     \* the last registry call: operation, arguments, result, registry before it
  first_conn,   \* history: (in_node, out_node) -> id returned by the first request
  first_split,  \* history: connection id -> triple returned by the first split
  requested,    \* history: the (in_node, out_node) pairs in the order of their first request
  genome,       \* the genome under mutation (genome/genome.rs: Genome)
  mpc,          \* the position inside Genome::mutate
  resplit,      \* history: the step just taken split a connection that was split before
  gen_call,     \* history: the add-node mutation just triggered, its choice, the genome before
  species,               \* Population.species : Vec<Species>
  species_counter,       \* Population.species_counter
  generation,            \* Population.generation
  config,                \* Population.config : NeatConfig
  best_genome,           \* Population.best_genome : Option<Genome>
  best_fitness,          \* Population.best_fitness
  initial_genome,        \* Population.initial_genome
  new_generation,        \* the local new_generation of reproduce / evolve
  offspring_per_species, \* the local offspring_per_species of reproduce
  cursor,                \* the position of reproduce's breeding loops
  ppc,                   \* the position inside Population::new / Population::evolve
  bred,                  \* history: how each genome of new_generation was made
  runs,                  \* two runs of Genome::mutate from one seed (twin specification)
  applied,               \* a pure function under check: its inputs and what it returned
  network,               \* the evaluator built from a genome (nn/feedforward.rs, nn/ctrnn.rs)
  manager,               \* a SpeciationManager (state.rs)
  mgr_call,              \* the last call on the manager: operation, argument, manager before it
  workers,               \* parallel evaluation: what each worker thread holds
  work                   \* parallel evaluation: the fitness function, the genomes not yet
                         \* taken, and history: the species when it began

regvars == <<reg_call, first_conn, first_split, requested>>
genvars == <<genome, mpc, resplit, gen_call>>
popvars == <<species, species_counter, generation, config, best_genome, best_fitness,
             initial_genome, new_generation, offspring_per_species, cursor, ppc, bred>>
twinvars == <<runs>>
purevars == <<applied, network>>
mgrvars == <<manager, mgr_call>>
parvars == <<workers, work>>
vars == <<innovation, reg_call, first_conn, first_split, requested, genome, mpc, resplit,
          gen_call,
          species, species_counter, generation, config, best_genome, best_fitness,
          initial_genome, new_generation, offspring_per_species, cursor, ppc, bred,
          runs, applied, network, manager, mgr_call,
          workers, work>>

----------------------------------------------------------------------------
(* Bounds of the registry specification.                                   *)
RegMaxNodes == 3
RegMaxConns == 3

(* Bounds of the genome specification: the registry counters stop here.    *)
GenMaxNodes == 4
GenMaxConns == 5

(* Bounds of the population specification.                                 *)
PopulationSize == 2
PopMaxNodes == 4
PopMaxConns == 5
MaxGenerations == 2

(* The environments a run is started with (context.rs: Environment).       *)
Environments == {[input_size |-> 1, output_size |-> 1]}

----------------------------------------------------------------------------
(* Helpers on finite maps.                                                 *)
Range(f) == {f[x] : x \in DOMAIN f}

EmptyMap == [x \in {} |-> 0]

----------------------------------------------------------------------------
(* state.rs: InnovationRecord                                              *)

\* InnovationRecord::new
InnovationRecord_new ==
  [ node_innovation_counter       |-> 0,
    connection_innovation_counter |-> 0,
    connection_innovations        |-> EmptyMap,
    node_splits                   |-> EmptyMap ]

\* InnovationRecord::record_node_innovation: returns the counter, then advances it
record_node_innovation(r) ==
  [ rec |-> [r EXCEPT !.node_innovation_counter = @ + 1],
    out |-> r.node_innovation_counter ]

\* a variant that allocates a fresh id on every request
record_connection_innovation_always_new(r, in_node, out_node) ==
  LET connection == <<in_node, out_node>>
      innov == r.connection_innovation_counter
  IN  [ rec |-> [r EXCEPT
                   !.connection_innovations =
                       [p \in (DOMAIN @) \cup {connection} |->
                          IF p = connection THEN innov ELSE @[p]],
                   !.connection_innovation_counter = @ + 1],
        out |-> innov ]

\* a variant that leaves a gap in the numbering at every new pair
record_connection_innovation_skipping(r, in_node, out_node) ==
  LET connection == <<in_node, out_node>>
  IN  IF connection \in DOMAIN r.connection_innovations
      THEN [ rec |-> r, out |-> r.connection_innovations[connection] ]
      ELSE LET innov == r.connection_innovation_counter + 1
           IN  [ rec |-> [r EXCEPT
                            !.connection_innovations = (connection :> innov) @@ @,
                            !.connection_innovation_counter = @ + 2],
                 out |-> innov ]

\* InnovationRecord::record_connection_innovation: entry(..).or_insert_with(..)
record_connection_innovation(r, in_node, out_node) ==
  LET connection == <<in_node, out_node>>
  IN  IF connection \in DOMAIN r.connection_innovations
      THEN [ rec |-> r, out |-> r.connection_innovations[connection] ]
      ELSE LET innov == r.connection_innovation_counter
           IN  [ rec |-> [r EXCEPT
                            !.connection_innovations = (connection :> innov) @@ @,
                            !.connection_innovation_counter = @ + 1],
                 out |-> innov ]

\* a variant that never consults the memo table
record_node_split_no_memo(r, connection_id, in_node, out_node) ==
  LET new_node_id == r.node_innovation_counter
      r1 == [r EXCEPT !.node_innovation_counter = @ + 1]
      a  == record_connection_innovation(r1, in_node, new_node_id)
      b  == record_connection_innovation(a.rec, new_node_id, out_node)
      result == <<new_node_id, a.out, b.out>>
  IN  [ rec |-> [b.rec EXCEPT
                   !.node_splits =
                       [c \in (DOMAIN @) \cup {connection_id} |->
                          IF c = connection_id THEN result ELSE @[c]]],
        out |-> result ]

\* a variant that memoizes the node of a split but numbers its two halves anew
record_node_split_fresh_connections(r, connection_id, in_node, out_node) ==
  LET known == connection_id \in DOMAIN r.node_splits
      new_node_id == IF known THEN r.node_splits[connection_id][1]
                     ELSE r.node_innovation_counter
      first == r.connection_innovation_counter
      result == <<new_node_id, first, first + 1>>
  IN  [ rec |-> [r EXCEPT
                   !.node_innovation_counter = IF known THEN @ ELSE @ + 1,
                   !.connection_innovation_counter = @ + 2,
                   !.connection_innovations =
                       [p \in (DOMAIN @) \cup {<<in_node, new_node_id>>,
                                               <<new_node_id, out_node>>} |->
                          IF p = <<in_node, new_node_id>> THEN first
                          ELSE IF p = <<new_node_id, out_node>> THEN first + 1
                          ELSE @[p]],
                   !.node_splits =
                       [c \in (DOMAIN @) \cup {connection_id} |->
                          IF c = connection_id THEN result ELSE @[c]]],
        out |-> result ]

\* InnovationRecord::record_node_split
record_node_split(r, connection_id, in_node, out_node) ==
  IF connection_id \in DOMAIN r.node_splits
  THEN [ rec |-> r, out |-> r.node_splits[connection_id] ]
  ELSE LET new_node_id == r.node_innovation_counter
           r1 == [r EXCEPT !.node_innovation_counter = @ + 1]
           a  == record_connection_innovation(r1, in_node, new_node_id)
           b  == record_connection_innovation(a.rec, new_node_id, out_node)
           result == <<new_node_id, a.out, b.out>>
       IN  [ rec |-> [b.rec EXCEPT !.node_splits = (connection_id :> result) @@ @],
             out |-> result ]

----------------------------------------------------------------------------
(* Sampling of the reals.  Weights live on a grid of weight units; a       *)
(* reassigned weight is any grid point, a perturbation moves a weight by   *)
(* one of the sampled deltas and is taken only if it stays on the grid.    *)
WeightGrid == {0, 1}
PerturbDeltas == {-1, 0, 1}

\* the weight add_node_mutation gives the incoming half of a split (1.0)
SplitInWeight == 1

----------------------------------------------------------------------------
(* Iteration orders.  A HashMap is iterated in an order that depends on    *)
(* the hasher's per-process keys: any enumeration of the key set.          *)
ToSet(s) == {s[i] : i \in DOMAIN s}

Min(S) == CHOOSE x \in S : \A y \in S : x <= y

Max(S) == CHOOSE x \in S : \A y \in S : x >= y

RECURSIVE Ascending(_)
Ascending(S) ==
  IF S = {} THEN <<>> ELSE <<Min(S)>> \o Ascending(S \ {Min(S)})

RECURSIVE Descending(_)
Descending(S) ==
  IF S = {} THEN <<>> ELSE <<Max(S)>> \o Descending(S \ {Max(S)})

\* the hasher keys std::collections::hash_map::RandomState draws for a
\* process, sampled by the iteration order they give a map of small integers
Hashers == {"ascending", "descending"}

\* the order in which a map with key set S hands out its keys under a hasher
KeyOrder(S, hasher) == IF hasher = "ascending" THEN Ascending(S) ELSE Descending(S)

----------------------------------------------------------------------------
(* genome/genes.rs                                                         *)

\* ConnectionGene::new
ConnectionGene_new(connection, weight, innov) ==
  [ weight |-> weight, enabled |-> TRUE,
    in_node |-> connection[1], out_node |-> connection[2], innovation |-> innov ]

\* NodeGene::new
NodeGene_new(id, activation) == [ id |-> id, activation |-> activation ]

\* HashMap::insert and HashSet::insert
MapInsert(m, k, v) == [x \in (DOMAIN m) \cup {k} |-> IF x = k THEN v ELSE m[x]]

Pair(gene) == <<gene.in_node, gene.out_node>>

----------------------------------------------------------------------------
(* genome/genome.rs: Genome                                                *)

\* the default activation of the configuration (context.rs)
default_activation_function == "Sigmoid"

\* Genome::from_existing: a copy with both fitness fields reset
from_existing(g) == [g EXCEPT !.fitness = 0, !.adjusted_fitness = [n |-> 0, d |-> 1]]

RECURSIVE AllocNodes(_, _)
\* n successive calls of record_node_innovation
AllocNodes(r, n) ==
  IF n = 0 THEN [rec |-> r, ids |-> <<>>]
  ELSE LET a == record_node_innovation(r)
           rest == AllocNodes(a.rec, n - 1)
       IN  [rec |-> rest.rec, ids |-> <<a.out>> \o rest.ids]

\* a variant without the loop from the bias node
InitialPairs_no_bias(input_nodes, bias_idx, output_nodes) ==
  LET ni == Len(input_nodes)
      no == Len(output_nodes)
  IN  [k \in 1 .. (ni * no) |->
         <<input_nodes[((k - 1) \div no) + 1], output_nodes[((k - 1) % no) + 1]>>]

\* the (input, output) pairs, then the (bias, output) pairs, in creation order
InitialPairs(input_nodes, bias_idx, output_nodes) ==
  LET ni == Len(input_nodes)
      no == Len(output_nodes)
  IN  [k \in 1 .. (ni * no) |->
         <<input_nodes[((k - 1) \div no) + 1], output_nodes[((k - 1) % no) + 1]>>]
      \o [k \in 1 .. no |-> <<bias_idx, output_nodes[k]>>]

RECURSIVE InitialConnections(_, _, _, _)
\* the loops of create_initial_genome that record and insert each connection
InitialConnections(r, pairs, weights, acc) ==
  IF pairs = <<>> THEN [rec |-> r, connections |-> acc]
  ELSE LET res == record_connection_innovation(r, Head(pairs)[1], Head(pairs)[2])
           gene == ConnectionGene_new(Head(pairs), Head(weights), res.out)
       IN  InitialConnections(res.rec, Tail(pairs), Tail(weights),
                              MapInsert(acc, res.out, gene))

\* Genome::create_initial_genome; weights are the draws of the generator, in order
create_initial_genome(input_size, output_size, r, weights) ==
  LET ins  == AllocNodes(r, input_size)
      bias == record_node_innovation(ins.rec)
      outs == AllocNodes(bias.rec, output_size)
      nodes == [id \in ToSet(ins.ids) \cup {bias.out} \cup ToSet(outs.ids) |->
                  IF id \in ToSet(outs.ids)
                  THEN NodeGene_new(id, default_activation_function)
                  ELSE NodeGene_new(id, "Identity")]
      pairs == InitialPairs(ins.ids, bias.out, outs.ids)
      conns == InitialConnections(outs.rec, pairs, weights, EmptyMap)
  IN  [ g |-> [ nodes |-> nodes,
                connections |-> conns.connections,
                connection_set |-> ToSet(pairs),
                input_nodes |-> ins.ids,
                bias_node |-> bias.out,
                output_nodes |-> outs.ids,
                fitness |-> 0,
                adjusted_fitness |-> [n |-> 0, d |-> 1] ],
        rec |-> conns.rec ]

\* the weight loop of Genome::mutate: every connection is perturbed or reassigned
WeightChoices(w) == ({w + d : d \in PerturbDeltas} \cap WeightGrid) \cup WeightGrid

mutate_weights(g, f) ==
  [g EXCEPT !.connections = [i \in DOMAIN @ |-> [@[i] EXCEPT !.weight = f[i]]]]

WeightDraws(g) ==
  {f \in [DOMAIN g.connections -> WeightGrid] :
     \A i \in DOMAIN f : f[i] \in WeightChoices(g.connections[i].weight)}

\* a variant of the pair filter that lets a node connect to itself
ValidPair_self_loops(g, from_node, to_node) ==
  /\ from_node \notin ToSet(g.output_nodes)
  /\ to_node \notin ToSet(g.input_nodes)
  /\ <<from_node, to_node>> \notin g.connection_set

\* the filter of add_connection_mutation's nested loops
ValidPair(g, from_node, to_node) ==
  /\ from_node \notin ToSet(g.output_nodes)
  /\ to_node \notin ToSet(g.input_nodes)
  /\ <<from_node, to_node>> \notin g.connection_set
  /\ from_node # to_node

\* possible_connections, filled by iterating self.nodes.keys() twice in order ord
possible_connections(g, ord) ==
  LET n == Len(ord)
      all == [k \in 1 .. (n * n) |-> <<ord[((k - 1) \div n) + 1], ord[((k - 1) % n) + 1]>>]
      Keep(p) == ValidPair(g, p[1], p[2])
  IN  SelectSeq(all, Keep)

\* a variant that numbers the new gene from the registry's counter instead
\* of the id the registry returned
add_connection_mutation_fresh_id(g, r, ord, idx, weight) ==
  LET possible == possible_connections(g, ord)
  IN  IF possible = <<>> THEN [g |-> g, rec |-> r]
      ELSE LET from_node == possible[idx][1]
               to_node == possible[idx][2]
               res == record_connection_innovation(r, from_node, to_node)
               fresh == r.connection_innovation_counter
           IN  IF fresh \in DOMAIN g.connections
               THEN [g |-> g, rec |-> res.rec]
               ELSE [ g |-> [g EXCEPT
                               !.connections =
                                   MapInsert(@, fresh,
                                     [ in_node |-> from_node, out_node |-> to_node,
                                       weight |-> weight, enabled |-> TRUE,
                                       innovation |-> fresh ]),
                               !.connection_set = @ \cup {<<from_node, to_node>>}],
                      rec |-> res.rec ]

\* Genome::add_connection_mutation; idx and weight are the draws of the generator
add_connection_mutation(g, r, ord, idx, weight) ==
  LET possible == possible_connections(g, ord)
  IN  IF possible = <<>> THEN [g |-> g, rec |-> r]
      ELSE LET from_node == possible[idx][1]
               to_node == possible[idx][2]
               res == record_connection_innovation(r, from_node, to_node)
           IN  IF res.out \in DOMAIN g.connections
               THEN [g |-> g, rec |-> res.rec]
               ELSE [ g |-> [g EXCEPT
                               !.connections =
                                   MapInsert(@, res.out,
                                     [ in_node |-> from_node, out_node |-> to_node,
                                       weight |-> weight, enabled |-> TRUE,
                                       innovation |-> res.out ]),
                               !.connection_set = @ \cup {<<from_node, to_node>>}],
                      rec |-> res.rec ]

\* a variant that gives the old weight to the first half and 1.0 to the second
add_node_mutation_swapped_weights(g, r, ord, idx) ==
  IF DOMAIN g.connections = {} THEN [g |-> g, rec |-> r]
  ELSE LET innov == ord[idx]
           connection == g.connections[innov]
       IN  IF ~connection.enabled THEN [g |-> g, rec |-> r]
           ELSE LET res == record_node_split(r, innov, connection.in_node,
                                             connection.out_node)
                    new_node_id == res.out[1]
                    in_conn == ConnectionGene_new(<<connection.in_node, new_node_id>>,
                                                  connection.weight, res.out[2])
                    out_conn == ConnectionGene_new(<<new_node_id, connection.out_node>>,
                                                   SplitInWeight, res.out[3])
                    disabled == [g.connections EXCEPT ![innov].enabled = FALSE]
                IN  [ g |-> [g EXCEPT
                               !.nodes =
                                   IF new_node_id \in DOMAIN @ THEN @
                                   ELSE MapInsert(@, new_node_id,
                                          NodeGene_new(new_node_id,
                                                       default_activation_function)),
                               !.connections =
                                   MapInsert(MapInsert(disabled, in_conn.innovation, in_conn),
                                             out_conn.innovation, out_conn),
                               !.connection_set =
                                   @ \cup {<<connection.in_node, new_node_id>>,
                                           <<new_node_id, connection.out_node>>}],
                      rec |-> res.rec ]

\* a variant that removes the split connection instead of disabling it
add_node_mutation_removing(g, r, ord, idx) ==
  IF DOMAIN g.connections = {} THEN [g |-> g, rec |-> r]
  ELSE LET innov == ord[idx]
           connection == g.connections[innov]
       IN  IF ~connection.enabled THEN [g |-> g, rec |-> r]
           ELSE LET res == record_node_split(r, innov, connection.in_node,
                                             connection.out_node)
                    new_node_id == res.out[1]
                    in_conn == ConnectionGene_new(<<connection.in_node, new_node_id>>,
                                                  SplitInWeight, res.out[2])
                    out_conn == ConnectionGene_new(<<new_node_id, connection.out_node>>,
                                                   connection.weight, res.out[3])
                    disabled == [i \in (DOMAIN g.connections) \ {innov} |-> g.connections[i]]
                IN  [ g |-> [g EXCEPT
                               !.nodes =
                                   IF new_node_id \in DOMAIN @ THEN @
                                   ELSE MapInsert(@, new_node_id,
                                          NodeGene_new(new_node_id,
                                                       default_activation_function)),
                               !.connections =
                                   MapInsert(MapInsert(disabled, in_conn.innovation, in_conn),
                                             out_conn.innovation, out_conn),
                               !.connection_set =
                                   @ \cup {<<connection.in_node, new_node_id>>,
                                           <<new_node_id, connection.out_node>>}],
                      rec |-> res.rec ]

\* Genome::add_node_mutation; the connection is the idx-th key in iteration order
add_node_mutation(g, r, ord, idx) ==
  IF DOMAIN g.connections = {} THEN [g |-> g, rec |-> r]
  ELSE LET innov == ord[idx]
           connection == g.connections[innov]
       IN  IF ~connection.enabled THEN [g |-> g, rec |-> r]
           ELSE LET res == record_node_split(r, innov, connection.in_node,
                                             connection.out_node)
                    new_node_id == res.out[1]
                    in_conn == ConnectionGene_new(<<connection.in_node, new_node_id>>,
                                                  SplitInWeight, res.out[2])
                    out_conn == ConnectionGene_new(<<new_node_id, connection.out_node>>,
                                                   connection.weight, res.out[3])
                    disabled == [g.connections EXCEPT ![innov].enabled = FALSE]
                IN  [ g |-> [g EXCEPT
                               !.nodes =
                                   IF new_node_id \in DOMAIN @ THEN @
                                   ELSE MapInsert(@, new_node_id,
                                          NodeGene_new(new_node_id,
                                                       default_activation_function)),
                               !.connections =
                                   MapInsert(MapInsert(disabled, in_conn.innovation, in_conn),
                                             out_conn.innovation, out_conn),
                               !.connection_set =
                                   @ \cup {<<connection.in_node, new_node_id>>,
                                           <<new_node_id, connection.out_node>>}],
                      rec |-> res.rec ]

\* the toggle step of Genome::mutate, on the idx-th connection in iteration order
toggle_enabled(g, ord, idx) ==
  [g EXCEPT !.connections[ord[idx]].enabled = ~@]

\* |x| on the integers
Abs(x) == IF x < 0 THEN -x ELSE x

RECURSIVE SumWeightDiff_magnitudes(_, _, _)
\* a variant that adds the magnitudes of the two weights instead of their
\* difference
SumWeightDiff_magnitudes(a, b, S) ==
  IF S = {} THEN 0
  ELSE LET i == Min(S)
       IN  Abs(a.connections[i].weight) + Abs(b.connections[i].weight)
           + SumWeightDiff_magnitudes(a, b, S \ {i})

RECURSIVE SumWeightDiff(_, _, _)
\* the sum of |w1 - w2| over the innovation ids in S
SumWeightDiff(a, b, S) ==
  IF S = {} THEN 0
  ELSE LET i == Min(S)
       IN  Abs(a.connections[i].weight - b.connections[i].weight)
           + SumWeightDiff(a, b, S \ {i})

\* a variant that counts only the genes the receiver has and the other lacks
compatibility_distance_one_sided(self, other, cfg) ==
  LET ks == DOMAIN self.connections
      ko == DOMAIN other.connections
      matching == ks \cap ko
      m == IF matching = {} THEN 1 ELSE Cardinality(matching)
  IN  IF ks \cup ko = {} THEN [n |-> 0, d |-> 1]
      ELSE [ n |-> cfg.compatibility_disjoint_coefficient * Cardinality(ks \ ko) * m
                   + cfg.compatibility_weight_coefficient
                       * SumWeightDiff(self, other, matching),
             d |-> m ]

\* Genome::compatibility_distance, as the exact fraction n / d
compatibility_distance(self, other, cfg) ==
  LET ks == DOMAIN self.connections
      ko == DOMAIN other.connections
      max_innov_self == IF ks = {} THEN 0 ELSE Max(ks)
      max_innov_other == IF ko = {} THEN 0 ELSE Max(ko)
      max_genome_size == IF Cardinality(ks) >= Cardinality(ko)
                         THEN Cardinality(ks) ELSE Cardinality(ko)
  IN  IF max_genome_size = 0 THEN [n |-> 0, d |-> 1]
      ELSE LET size_normalization == IF max_genome_size < 20 THEN 1 ELSE max_genome_size
               matching == ks \cap ko
               num_matching == Cardinality(matching)
               num_excess == Cardinality({i \in ks \ ko : i > max_innov_other})
                             + Cardinality({i \in ko \ ks : i > max_innov_self})
               num_disjoint == Cardinality({i \in ks \ ko : i <= max_innov_other})
                               + Cardinality({i \in ko \ ks : i <= max_innov_self})
               weight_diff_sum == SumWeightDiff(self, other, matching)
               m == IF num_matching > 0 THEN num_matching ELSE 1
           IN  [ n |-> cfg.compatibility_disjoint_coefficient * num_disjoint * m
                       + cfg.compatibility_disjoint_coefficient * num_excess * m
                       + cfg.compatibility_weight_coefficient * weight_diff_sum
                           * size_normalization,
                 d |-> size_normalization * m ]

\* x < y on fractions with positive denominators
FracLess(x, y) == x.n * y.d < y.n * x.d

\* a variant that stores an inherited gene without its pair
CrossoverStep_without_pair(child, more_fit, less_fit, innov, pick) ==
  LET in1 == innov \in DOMAIN more_fit.connections
      in2 == innov \in DOMAIN less_fit.connections
      gene == IF in1 /\ in2
              THEN (IF pick THEN more_fit.connections[innov]
                    ELSE less_fit.connections[innov])
              ELSE IF in1 THEN more_fit.connections[innov]
              ELSE less_fit.connections[innov]
  IN  IF Pair(gene) \in child.connection_set THEN child
      ELSE [child EXCEPT !.connections = MapInsert(@, innov, gene)]

\* one turn of the connection loop of Genome::crossover; pick is the coin
\* drawn when both parents carry the innovation
CrossoverStep(child, more_fit, less_fit, innov, pick) ==
  LET in1 == innov \in DOMAIN more_fit.connections
      in2 == innov \in DOMAIN less_fit.connections
      gene == IF in1 /\ in2
              THEN (IF pick THEN more_fit.connections[innov]
                    ELSE less_fit.connections[innov])
              ELSE IF in1 THEN more_fit.connections[innov]
              ELSE less_fit.connections[innov]
  IN  IF Pair(gene) \in child.connection_set THEN child
      ELSE [child EXCEPT !.connections = MapInsert(@, innov, gene),
                         !.connection_set = @ \cup {Pair(gene)}]

RECURSIVE CrossoverGenes(_, _, _, _, _)
\* the connection loop of Genome::crossover from its k-th turn on: the
\* children it can end with, over every outcome of the coins
CrossoverGenes(children, more_fit, less_fit, all, k) ==
  IF k > Len(all) THEN children
  ELSE CrossoverGenes({CrossoverStep(c, more_fit, less_fit, all[k], pick) :
                         c \in children, pick \in BOOLEAN},
                      more_fit, less_fit, all, k + 1)

\* the keys of both parents chained and sorted: a shared id occurs twice
SortedInnovations(more_fit, less_fit) ==
  LET ks == DOMAIN more_fit.connections
      ko == DOMAIN less_fit.connections
      RECURSIVE Merge(_)
      Merge(S) ==
        IF S = {} THEN <<>>
        ELSE LET i == Min(S)
             IN  (IF i \in ks /\ i \in ko THEN <<i, i>> ELSE <<i>>) \o Merge(S \ {i})
  IN  Merge(ks \cup ko)

\* a variant that leaves the child with the nodes of the receiver only
CrossoverNodes_receiver_only(child, more_fit, less_fit) == child.nodes

\* the node loops of Genome::crossover
CrossoverNodes(child, more_fit, less_fit) ==
  LET nodes1 == [id \in (DOMAIN child.nodes) \cup (DOMAIN more_fit.nodes) |->
                   IF id \in DOMAIN more_fit.nodes THEN more_fit.nodes[id]
                   ELSE child.nodes[id]]
  IN  [id \in (DOMAIN nodes1) \cup (DOMAIN less_fit.nodes) |->
         IF id \in DOMAIN nodes1 THEN nodes1[id] ELSE less_fit.nodes[id]]

\* Genome::crossover: the children it can return, over every outcome of the
\* tie coin and of the gene coins
crossover(self, other) ==
  LET self_first_draws == IF self.fitness > other.fitness THEN {TRUE}
                          ELSE IF other.fitness > self.fitness THEN {FALSE}
                          ELSE BOOLEAN
      Children(self_first) ==
        LET more_fit == IF self_first THEN self ELSE other
            less_fit == IF self_first THEN other ELSE self
            child == [from_existing(self) EXCEPT
                        !.nodes = CrossoverNodes(from_existing(self), more_fit, less_fit)]
        IN  CrossoverGenes({child}, more_fit, less_fit,
                           SortedInnovations(more_fit, less_fit), 1)
  IN  UNION {Children(self_first) : self_first \in self_first_draws}

\* the outcomes of rng.random::<f32>() < p, p a probability n / d
Chance(p) == {b \in BOOLEAN : IF b THEN p.n > 0 ELSE p.n < p.d}

\* the registry can still serve a request for this pair within the bounds
ConnWithinBounds(r, pair, maxc) ==
  \/ pair \in DOMAIN r.connection_innovations
  \/ r.connection_innovation_counter < maxc

\* the registry can still serve a split of this connection within the bounds
SplitWithinBounds(r, innov, maxn, maxc) ==
  \/ innov \in DOMAIN r.node_splits
  \/ /\ r.node_innovation_counter < maxn
     /\ r.connection_innovation_counter + 2 <= maxc

\* Genome::mutate as one call: the (genome, registry) pairs it can end with,
\* over every outcome of its draws, the registry counters staying below
\* maxn and maxc
mutate(g, r, cfg, maxn, maxc) ==
  LET Weights ==
        (IF FALSE \in Chance(cfg.weight_mutation_prob) THEN {g} ELSE {})
        \cup (IF TRUE \in Chance(cfg.weight_mutation_prob)
              THEN {mutate_weights(g, f) : f \in WeightDraws(g)} ELSE {})
      AddConnection(g1) ==
        (IF FALSE \in Chance(cfg.new_connection_prob)
         THEN {[g |-> g1, rec |-> r]} ELSE {})
        \cup (IF TRUE \in Chance(cfg.new_connection_prob)
              THEN LET ord == Ascending(DOMAIN g1.nodes)
                       possible == possible_connections(g1, ord)
                   IN  IF possible = <<>> THEN {[g |-> g1, rec |-> r]}
                       ELSE {add_connection_mutation(g1, r, ord, idx, weight) :
                               idx \in {i \in DOMAIN possible :
                                          ConnWithinBounds(r, possible[i], maxc)},
                               weight \in WeightGrid}
              ELSE {})
      AddNode(x) ==
        (IF FALSE \in Chance(cfg.new_node_prob) THEN {x} ELSE {})
        \cup (IF TRUE \in Chance(cfg.new_node_prob)
              THEN LET ord == Ascending(DOMAIN x.g.connections)
                   IN  IF ord = <<>> THEN {x}
                       ELSE {add_node_mutation(x.g, x.rec, ord, idx) :
                               idx \in {i \in DOMAIN ord :
                                          SplitWithinBounds(x.rec, ord[i], maxn, maxc)}}
              ELSE {})
      Toggle(x) ==
        (IF FALSE \in Chance(cfg.toggle_enable_prob) \/ DOMAIN x.g.connections = {}
         THEN {x} ELSE {})
        \cup (IF TRUE \in Chance(cfg.toggle_enable_prob)
              THEN LET ord == Ascending(DOMAIN x.g.connections)
                   IN  {[g |-> toggle_enabled(x.g, ord, idx), rec |-> x.rec] :
                          idx \in DOMAIN ord}
              ELSE {})
      after_connection == UNION {AddConnection(g1) : g1 \in Weights}
      after_node == UNION {AddNode(x) : x \in after_connection}
  IN  UNION {Toggle(x) : x \in after_node}

RECURSIVE MutateRounds(_, _, _, _, _, _)
\* n successive calls of Genome::mutate
MutateRounds(g, r, cfg, maxn, maxc, n) ==
  IF n = 0 THEN {[g |-> g, rec |-> r]}
  ELSE UNION {mutate(x.g, x.rec, cfg, maxn, maxc) :
                x \in MutateRounds(g, r, cfg, maxn, maxc, n - 1)}

----------------------------------------------------------------------------
(* species.rs: Species                                                     *)

\* Option<Genome>: None is the empty sequence, Some(g) is <<g>>
None == <<>>
Some(g) == <<g>>

\* Species::new
Species_new(id, representative) ==
  [ id |-> id, genomes |-> <<>>, representative |-> representative,
    staleness |-> 0, best_fitness |-> 0, best_fitness_genome |-> None,
    average_fitness |-> [n |-> 0, d |-> 1] ]

RECURSIVE SumFitness(_)
SumFitness(genomes) ==
  IF genomes = <<>> THEN 0 ELSE Head(genomes).fitness + SumFitness(Tail(genomes))

\* Species::calculate_average_fitness, the mean as a fraction
calculate_average_fitness(sp) ==
  IF sp.genomes = <<>> THEN [sp EXCEPT !.average_fitness = [n |-> 0, d |-> 1]]
  ELSE [sp EXCEPT !.average_fitness = [n |-> SumFitness(sp.genomes), d |-> Len(sp.genomes)]]

\* Iterator::max_by: the last of the members of maximal fitness
MaxByFitness(genomes) ==
  LET best == Max({genomes[i].fitness : i \in DOMAIN genomes})
  IN  genomes[Max({i \in DOMAIN genomes : genomes[i].fitness = best})]

\* a variant that also takes a member that only equals the recorded best
update_best_fitness_on_ties(sp) ==
  IF sp.genomes = <<>> THEN sp
  ELSE LET best == MaxByFitness(sp.genomes)
       IN  IF best.fitness >= sp.best_fitness
           THEN [sp EXCEPT !.best_fitness = best.fitness,
                           !.best_fitness_genome = Some(best),
                           !.representative = best,
                           !.staleness = 0]
           ELSE [sp EXCEPT !.staleness = @ + 1]

\* Species::update_best_fitness
update_best_fitness(sp) ==
  IF sp.genomes = <<>> THEN sp
  ELSE LET best == MaxByFitness(sp.genomes)
       IN  IF best.fitness > sp.best_fitness
           THEN [sp EXCEPT !.best_fitness = best.fitness,
                           !.best_fitness_genome = Some(best),
                           !.representative = best,
                           !.staleness = 0]
           ELSE [sp EXCEPT !.staleness = @ + 1]

RECURSIVE SortByFitness(_)
\* Vec::sort_by on fitness: ascending and stable
SortByFitness(genomes) ==
  IF genomes = <<>> THEN <<>>
  ELSE LET n == Len(genomes)
           last == genomes[n]
           rest == SortByFitness(SubSeq(genomes, 1, n - 1))
           before == SelectSeq(rest, LAMBDA g : g.fitness <= last.fitness)
           after == SelectSeq(rest, LAMBDA g : g.fitness > last.fitness)
       IN  before \o <<last>> \o after

----------------------------------------------------------------------------
(* The registry specification: any sequence of registry calls whose node   *)
(* arguments are ids the registry has issued, as every caller passes.      *)

NoCall == [op |-> "none", args |-> <<>>, out |-> <<>>, repeat |-> FALSE,
           before |-> InnovationRecord_new]

NoConfig == [population_size |-> 0]

NoCursor == [species_idx |-> 0, made |-> 0]

\* Genome::new: the empty genome
Genome_new ==
  [ nodes |-> EmptyMap, connections |-> EmptyMap, connection_set |-> {},
    input_nodes |-> <<>>, bias_node |-> 0, output_nodes |-> <<>>,
    fitness |-> 0, adjusted_fitness |-> [n |-> 0, d |-> 1] ]

GenIdle ==
  /\ genome = Genome_new
  /\ mpc = "idle"
  /\ resplit = FALSE
  /\ gen_call = [op |-> "none"]

\* no population: the variables of population.rs at rest
PopIdle ==
  /\ species = <<>>
  /\ species_counter = 0
  /\ generation = 0
  /\ config = NoConfig
  /\ best_genome = None
  /\ best_fitness = 0
  /\ initial_genome = Genome_new
  /\ new_generation = <<>>
  /\ offspring_per_species = <<>>
  /\ cursor = NoCursor
  /\ ppc = "none"
  /\ bred = <<>>

\* no twin runs
TwinIdle == runs = <<>>

\* no pure function under check
\* no manager has been made
NoManager == [compatibility_threshold |-> [n |-> 0, d |-> 1], species_counter |-> 0,
              target_species_count |-> 0]

MgrIdle ==
  /\ manager = NoManager
  /\ mgr_call = [op |-> "none"]

\* no parallel evaluation is running
NoWork == [fitness_fn |-> "none", queue |-> {}]

ParIdle ==
  /\ workers = <<>>
  /\ work = NoWork

\* no evaluator has been built
NoNetwork == [kind |-> "none"]

PureIdle ==
  /\ applied = [op |-> "none"]
  /\ network = NoNetwork

RegIdle ==
  /\ reg_call = NoCall
  /\ first_conn = EmptyMap
  /\ first_split = EmptyMap
  /\ requested = <<>>

RegInit ==
  /\ PureIdle
  /\ MgrIdle
  /\ ParIdle
  /\ innovation = InnovationRecord_new
  /\ RegIdle
  /\ GenIdle
  /\ PopIdle
  /\ TwinIdle

IssuedNodes(r) == 0 .. (r.node_innovation_counter - 1)

\* the pairs recorded by a call that were not recorded before it
NewPairs(before, after) ==
  (DOMAIN after.connection_innovations) \ (DOMAIN before.connection_innovations)

RememberPairs(before, after) ==
  [p \in (DOMAIN first_conn) \cup NewPairs(before, after) |->
     IF p \in DOMAIN first_conn THEN first_conn[p] ELSE after.connection_innovations[p]]

\* the order of first requests after one more request
AppendNew(seq, pair) == IF pair \in ToSet(seq) THEN seq ELSE Append(seq, pair)

RegNode ==
  /\ innovation.node_innovation_counter < RegMaxNodes
  /\ LET res == record_node_innovation(innovation)
     IN  /\ innovation' = res.rec
         /\ reg_call' = [op |-> "node", args |-> <<>>, out |-> <<res.out>>,
                         repeat |-> FALSE, before |-> innovation]
  /\ UNCHANGED <<first_conn, first_split, requested, genvars, popvars, twinvars, purevars, mgrvars, parvars>>

RegConn ==
  \E a \in IssuedNodes(innovation), b \in IssuedNodes(innovation) :
    /\ \/ <<a, b>> \in DOMAIN innovation.connection_innovations
       \/ innovation.connection_innovation_counter < RegMaxConns
    /\ LET res == record_connection_innovation(innovation, a, b)
       IN  /\ innovation' = res.rec
           /\ reg_call' = [op |-> "conn", args |-> <<a, b>>, out |-> <<res.out>>,
                           repeat |-> (<<a, b>> \in DOMAIN first_conn),
                           before |-> innovation]
           /\ first_conn' = IF <<a, b>> \in DOMAIN first_conn
                            THEN first_conn
                            ELSE (<<a, b>> :> res.out) @@ first_conn
           /\ requested' = AppendNew(requested, <<a, b>>)
    /\ UNCHANGED <<first_split, genvars, popvars, twinvars, purevars, mgrvars, parvars>>

RegSplit ==
  \E c \in Range(innovation.connection_innovations) :
    \E a \in IssuedNodes(innovation), b \in IssuedNodes(innovation) :
      /\ \/ c \in DOMAIN innovation.node_splits
         \/ /\ innovation.node_innovation_counter < RegMaxNodes
            /\ innovation.connection_innovation_counter + 2 <= RegMaxConns
      /\ LET res == record_node_split(innovation, c, a, b)
         IN  /\ innovation' = res.rec
             /\ reg_call' = [op |-> "split", args |-> <<c, a, b>>, out |-> res.out,
                             repeat |-> (c \in DOMAIN first_split),
                             before |-> innovation]
             /\ first_conn' = RememberPairs(innovation, res.rec)
             /\ first_split' = IF c \in DOMAIN first_split
                               THEN first_split
                               ELSE (c :> res.out) @@ first_split
             /\ requested' =
                  IF c \in DOMAIN innovation.node_splits THEN requested
                  ELSE LET new_node_id == innovation.node_innovation_counter
                       IN  AppendNew(AppendNew(requested, <<a, new_node_id>>),
                                     <<new_node_id, b>>)
      /\ UNCHANGED <<genvars, popvars, twinvars, purevars, mgrvars, parvars>>

RegNext == RegNode \/ RegConn \/ RegSplit

SpecReg == RegInit /\ [][RegNext]_vars

----------------------------------------------------------------------------
(* The genome specification: one genome created by create_initial_genome   *)
(* on a fresh registry and then mutated by any sequence of mutate calls.   *)
(* mpc is the position inside the current call of Genome::mutate; every    *)
(* step of the call is either skipped (its probability draw failed) or     *)
(* applied, with every outcome of its draws.                               *)

GenInit ==
  /\ PureIdle
  /\ MgrIdle
  /\ ParIdle
  /\ RegIdle
  /\ PopIdle
  /\ TwinIdle
  /\ \E env \in Environments :
       \E weights \in [1 .. ((env.input_size + 1) * env.output_size) -> WeightGrid] :
         LET made == create_initial_genome(env.input_size, env.output_size,
                                           InnovationRecord_new, weights)
         IN  /\ genome = made.g
             /\ innovation = made.rec
  /\ mpc = "weights"
  /\ resplit = FALSE
  /\ gen_call = [op |-> "none"]

GenWeights ==
  /\ mpc = "weights"
  /\ mpc' = "add_connection"
  /\ \/ UNCHANGED genome
     \/ \E f \in WeightDraws(genome) : genome' = mutate_weights(genome, f)
  /\ resplit' = FALSE
  /\ gen_call' = [op |-> "none"]
  /\ UNCHANGED <<innovation, regvars, popvars, twinvars, purevars, mgrvars, parvars>>

GenAddConnection ==
  /\ mpc = "add_connection"
  /\ mpc' = "add_node"
  /\ resplit' = FALSE
  /\ gen_call' = [op |-> "none"]
  /\ \/ UNCHANGED <<genome, innovation>>
     \/ LET ord == Ascending(DOMAIN genome.nodes)
            possible == possible_connections(genome, ord)
        IN  \E idx \in DOMAIN possible, weight \in WeightGrid :
              /\ ConnWithinBounds(innovation, possible[idx], GenMaxConns)
              /\ LET res == add_connection_mutation(genome, innovation, ord, idx, weight)
                 IN  /\ genome' = res.g
                     /\ innovation' = res.rec
  /\ UNCHANGED <<regvars, popvars, twinvars, purevars, mgrvars, parvars>>

GenAddNode ==
  /\ mpc = "add_node"
  /\ mpc' = "toggle"
  /\ \/ /\ UNCHANGED <<genome, innovation>>
        /\ resplit' = FALSE
        /\ gen_call' = [op |-> "none"]
     \/ LET ord == Ascending(DOMAIN genome.connections)
        IN  \E idx \in DOMAIN ord :
              /\ SplitWithinBounds(innovation, ord[idx], GenMaxNodes, GenMaxConns)
              /\ LET res == add_node_mutation(genome, innovation, ord, idx)
                 IN  /\ genome' = res.g
                     /\ innovation' = res.rec
                     /\ resplit' =
                          /\ genome.connections[ord[idx]].enabled
                          /\ ord[idx] \in DOMAIN innovation.node_splits
                     /\ gen_call' = [ op |-> "add_node_mutation", chosen |-> ord[idx],
                                      before |-> genome ]
  /\ UNCHANGED <<regvars, popvars, twinvars, purevars, mgrvars, parvars>>

GenToggle ==
  /\ mpc = "toggle"
  /\ mpc' = "weights"
  /\ resplit' = FALSE
  /\ gen_call' = [op |-> "none"]
  /\ \/ UNCHANGED genome
     \/ LET ord == Ascending(DOMAIN genome.connections)
        IN  \E idx \in DOMAIN ord :
              genome' = toggle_enabled(genome, ord, idx)
  /\ UNCHANGED <<innovation, regvars, popvars, twinvars, purevars, mgrvars, parvars>>

GenNext == GenWeights \/ GenAddConnection \/ GenAddNode \/ GenToggle

SpecGenome == GenInit /\ [][GenNext]_vars

----------------------------------------------------------------------------
(* population.rs: Population                                               *)

\* the fitness values a fitness function returns
FitnessValues == {0, 1, 2}

\* the weights create_initial_genome draws for a population's template
TemplateWeights == {1}

\* the configurations a population is built with (context.rs: NeatConfig);
\* probabilities, the threshold and the survival share are fractions n / d
PopConfigs ==
  { [ population_size |-> PopulationSize,
      compatibility_threshold |-> [n |-> 1, d |-> 1],
      compatibility_disjoint_coefficient |-> 1,
      compatibility_weight_coefficient |-> 1,
      weight_mutation_prob |-> [n |-> 0, d |-> 1],
      new_connection_prob |-> [n |-> 1, d |-> 2],
      new_node_prob |-> [n |-> 1, d |-> 2],
      toggle_enable_prob |-> [n |-> 0, d |-> 1],
      crossover_rate |-> [n |-> 3, d |-> 4],
      survival_threshold |-> [n |-> 2, d |-> 3],
      elitism |-> 1,
      stagnation_limit |-> 1,
      target_species_count |-> 1 ] }

FracAdd(x, y) == [n |-> x.n * y.d + y.n * x.d, d |-> x.d * y.d]

\* f32::round of the non-negative fraction a / b, as usize
Round(a, b) == (2 * a + b) \div (2 * b)

\* f32::ceil of the non-negative fraction a / b, as usize
Ceil(a, b) == (a + b - 1) \div b

RECURSIVE UpdateStatistics_latest_best(_, _, _, _)
\* a variant that takes every species' best as the global best, larger or not
UpdateStatistics_latest_best(sps, i, cfg, acc) ==
  IF i > Len(sps) THEN acc
  ELSE LET s1 == update_best_fitness(calculate_average_fitness(sps[i]))
           amount == Len(s1.genomes)
           improves == s1.best_fitness_genome # None
           s2 == [s1 EXCEPT !.genomes =
                    [j \in DOMAIN s1.genomes |->
                       [s1.genomes[j] EXCEPT !.adjusted_fitness =
                                               [n |-> s1.genomes[j].fitness,
                                                d |-> amount]]]]
       IN  UpdateStatistics_latest_best(sps, i + 1, cfg,
             [ species |-> Append(acc.species, s2),
               best_fitness |-> IF improves THEN s1.best_fitness_genome[1].fitness
                                ELSE acc.best_fitness,
               best_genome |-> IF improves THEN Some(s1.best_fitness_genome[1])
                               ELSE acc.best_genome,
               stagnant_species |-> IF s1.staleness >= cfg.stagnation_limit
                                    THEN acc.stagnant_species \cup {s1.id}
                                    ELSE acc.stagnant_species,
               total_adjusted_fitness |->
                   IF amount = 0 THEN acc.total_adjusted_fitness
                   ELSE FracAdd(acc.total_adjusted_fitness,
                                [n |-> SumFitness(s1.genomes), d |-> amount]) ])

RECURSIVE UpdateStatistics_fitness_only(_, _, _, _)
\* a variant that records the fitness of a new global best without the genome
UpdateStatistics_fitness_only(sps, i, cfg, acc) ==
  IF i > Len(sps) THEN acc
  ELSE LET s1 == update_best_fitness(calculate_average_fitness(sps[i]))
           amount == Len(s1.genomes)
           improves == /\ s1.best_fitness_genome # None
                       /\ s1.best_fitness_genome[1].fitness > acc.best_fitness
           s2 == [s1 EXCEPT !.genomes =
                    [j \in DOMAIN s1.genomes |->
                       [s1.genomes[j] EXCEPT !.adjusted_fitness =
                                               [n |-> s1.genomes[j].fitness,
                                                d |-> amount]]]]
       IN  UpdateStatistics_fitness_only(sps, i + 1, cfg,
             [ species |-> Append(acc.species, s2),
               best_fitness |-> IF improves THEN s1.best_fitness_genome[1].fitness
                                ELSE acc.best_fitness,
               best_genome |-> acc.best_genome,
               stagnant_species |-> IF s1.staleness >= cfg.stagnation_limit
                                    THEN acc.stagnant_species \cup {s1.id}
                                    ELSE acc.stagnant_species,
               total_adjusted_fitness |->
                   IF amount = 0 THEN acc.total_adjusted_fitness
                   ELSE FracAdd(acc.total_adjusted_fitness,
                                [n |-> SumFitness(s1.genomes), d |-> amount]) ])

RECURSIVE UpdateStatistics(_, _, _, _)
\* step 1 of reproduce, from the i-th species on; acc carries the species
\* visited so far, the global best, the stagnant ids and total_adjusted_fitness
UpdateStatistics(sps, i, cfg, acc) ==
  IF i > Len(sps) THEN acc
  ELSE LET s1 == update_best_fitness(calculate_average_fitness(sps[i]))
           amount == Len(s1.genomes)
           improves == /\ s1.best_fitness_genome # None
                       /\ s1.best_fitness_genome[1].fitness > acc.best_fitness
           s2 == [s1 EXCEPT !.genomes =
                    [j \in DOMAIN s1.genomes |->
                       [s1.genomes[j] EXCEPT !.adjusted_fitness =
                                               [n |-> s1.genomes[j].fitness,
                                                d |-> amount]]]]
       IN  UpdateStatistics(sps, i + 1, cfg,
             [ species |-> Append(acc.species, s2),
               best_fitness |-> IF improves THEN s1.best_fitness_genome[1].fitness
                                ELSE acc.best_fitness,
               best_genome |-> IF improves THEN Some(s1.best_fitness_genome[1])
                               ELSE acc.best_genome,
               stagnant_species |-> IF s1.staleness >= cfg.stagnation_limit
                                    THEN acc.stagnant_species \cup {s1.id}
                                    ELSE acc.stagnant_species,
               total_adjusted_fitness |->
                   IF amount = 0 THEN acc.total_adjusted_fitness
                   ELSE FracAdd(acc.total_adjusted_fitness,
                                [n |-> SumFitness(s1.genomes), d |-> amount]) ])

\* step 2 of reproduce: the number of offspring of one species
offspring_count(sp, sps, total, cfg) ==
  IF total.n > 0
  THEN Round(SumFitness(sp.genomes) * total.d * cfg.population_size,
             Len(sp.genomes) * total.n)
  ELSE cfg.population_size \div Len(sps)

RECURSIVE Elitism_lowest(_, _, _, _)
\* a variant that takes the members from the low end of the sorted list
Elitism_lowest(sps, i, cfg, acc) ==
  IF i > Len(sps) THEN acc
  ELSE LET genomes == SortByFitness(sps[i].genomes)
           n == Len(genomes)
           take == IF cfg.elitism <= n THEN cfg.elitism ELSE n
           RECURSIVE Push(_, _)
           Push(j, a) ==
             IF j >= take THEN a
             ELSE Push(j + 1, IF Len(a) < cfg.population_size
                              THEN Append(a, genomes[j + 1]) ELSE a)
       IN  Elitism_lowest(sps, i + 1, cfg, IF n >= cfg.elitism THEN Push(0, acc) ELSE acc)

RECURSIVE Elitism(_, _, _, _)
\* step 3 of reproduce, from the i-th species on
Elitism(sps, i, cfg, acc) ==
  IF i > Len(sps) THEN acc
  ELSE LET genomes == SortByFitness(sps[i].genomes)
           n == Len(genomes)
           take == IF cfg.elitism <= n THEN cfg.elitism ELSE n
           RECURSIVE Push(_, _)
           Push(j, a) ==
             IF j >= take THEN a
             ELSE Push(j + 1, IF Len(a) < cfg.population_size
                              THEN Append(a, genomes[n - j]) ELSE a)
       IN  Elitism(sps, i + 1, cfg, IF n >= cfg.elitism THEN Push(0, acc) ELSE acc)

\* a variant that keeps the low end of the sorted list
breeding_pool_lowest(sp, cfg) ==
  LET sorted == SortByFitness(sp.genomes)
      cutoff == Ceil(Len(sorted) * cfg.survival_threshold.n, cfg.survival_threshold.d)
  IN  IF cutoff > 0 /\ cutoff < Len(sorted)
      THEN SubSeq(sorted, 1, cutoff)
      ELSE sorted

\* the breeding pool of a species in step 4 of reproduce
breeding_pool(sp, cfg) ==
  LET sorted == SortByFitness(sp.genomes)
      cutoff == Ceil(Len(sorted) * cfg.survival_threshold.n, cfg.survival_threshold.d)
  IN  IF cutoff > 0 /\ cutoff < Len(sorted)
      THEN SubSeq(sorted, Len(sorted) - cutoff + 1, Len(sorted))
      ELSE sorted

\* the first species at or after index i that step 4 does not skip, 0 if none
NextBreeder(sps, counts, i) ==
  LET left == {j \in i .. Len(sps) : counts[j] > 0 /\ sps[j].genomes # <<>>}
  IN  IF left = {} THEN 0 ELSE Min(left)

\* the position of step 4 after a child of species si, its (made+1)-th, was pushed
AdvanceCursor(sps, counts, si, made) ==
  IF made + 1 < counts[si] THEN [species_idx |-> si, made |-> made + 1]
  ELSE [species_idx |-> NextBreeder(sps, counts, si + 1), made |-> 0]

\* a variant without the fill loop of reproduce
Continue_no_fill(len, c, cfg) ==
  IF len >= cfg.population_size THEN "speciate"
  ELSE IF c.species_idx = 0 THEN "speciate"
  ELSE "breed"

\* where reproduce / evolve continues with this much of the new generation
\* made and the breeding loops at position c
Continue(len, c, cfg) ==
  IF len >= cfg.population_size THEN "speciate"
  ELSE IF c.species_idx = 0 THEN "fill"
  ELSE "breed"

\* the children step 4 can make from a breeding pool, before mutation
BreedChildren(pool, cfg) ==
  (IF FALSE \in Chance(cfg.crossover_rate) \/ Len(pool) < 2
   THEN {[kind |-> "clone", g |-> from_existing(pool[p]), parents |-> <<pool[p]>>] :
           p \in DOMAIN pool}
   ELSE {})
  \cup (IF TRUE \in Chance(cfg.crossover_rate) /\ Len(pool) >= 2
        THEN UNION {{[kind |-> "crossover", g |-> c, parents |-> <<pool[p1], pool[p2]>>] :
                       c \in crossover(pool[p1], pool[p2])} :
                      p1 \in DOMAIN pool, p2 \in DOMAIN pool}
        ELSE {})

\* a variant of the placement loop that founds no species
RECURSIVE PlaceGenomes_no_new_species(_, _, _, _, _)
PlaceGenomes_no_new_species(sps, counter, new_gen, k, cfg) ==
  IF k > Len(new_gen) THEN [species |-> sps, species_counter |-> counter]
  ELSE LET member == new_gen[k]
           fits == {i \in DOMAIN sps :
                      FracLess(compatibility_distance(sps[i].representative, member, cfg),
                               cfg.compatibility_threshold)}
       IN  IF fits # {}
           THEN PlaceGenomes_no_new_species(
                  [sps EXCEPT ![Min(fits)].genomes = Append(@, member)],
                  counter, new_gen, k + 1, cfg)
           ELSE PlaceGenomes_no_new_species(sps, counter, new_gen, k + 1, cfg)

RECURSIVE PlaceGenomes_same_counter(_, _, _, _, _)
\* a variant that does not advance the counter after a new species
PlaceGenomes_same_counter(sps, counter, new_gen, k, cfg) ==
  IF k > Len(new_gen) THEN [species |-> sps, species_counter |-> counter]
  ELSE LET member == new_gen[k]
           fits == {i \in DOMAIN sps :
                      FracLess(compatibility_distance(sps[i].representative, member, cfg),
                               cfg.compatibility_threshold)}
       IN  IF fits # {}
           THEN PlaceGenomes_same_counter(
                  [sps EXCEPT ![Min(fits)].genomes = Append(@, member)],
                  counter, new_gen, k + 1, cfg)
           ELSE PlaceGenomes_same_counter(
                  Append(sps, [Species_new(counter, member) EXCEPT !.genomes = <<member>>]),
                  counter, new_gen, k + 1, cfg)

RECURSIVE PlaceGenomes(_, _, _, _, _)
\* the placement loop of speciate, from the k-th genome of the new generation on
PlaceGenomes(sps, counter, new_gen, k, cfg) ==
  IF k > Len(new_gen) THEN [species |-> sps, species_counter |-> counter]
  ELSE LET member == new_gen[k]
           fits == {i \in DOMAIN sps :
                      FracLess(compatibility_distance(sps[i].representative, member, cfg),
                               cfg.compatibility_threshold)}
       IN  IF fits # {}
           THEN PlaceGenomes([sps EXCEPT ![Min(fits)].genomes = Append(@, member)],
                             counter, new_gen, k + 1, cfg)
           ELSE PlaceGenomes(
                  Append(sps, [Species_new(counter, member) EXCEPT !.genomes = <<member>>]),
                  counter + 1, new_gen, k + 1, cfg)

\* Population::speciate.  Every species is emptied first, so the loop that
\* would choose new representatives finds every species empty and all of
\* them are removed before the genomes are placed.
speciate(sps, counter, new_gen, cfg) ==
  LET cleared == [i \in DOMAIN sps |-> [sps[i] EXCEPT !.genomes = <<>>]]
      kept == SelectSeq(cleared, LAMBDA sp : sp.genomes # <<>>)
      placed == PlaceGenomes(kept, counter, new_gen, 1, cfg)
      final == SelectSeq(placed.species, LAMBDA sp : sp.genomes # <<>>)
      threshold == cfg.compatibility_threshold
  IN  [ species |-> final,
        species_counter |-> placed.species_counter,
        compatibility_threshold |->
            IF Len(final) > cfg.target_species_count * 2
            THEN [n |-> threshold.n * 21, d |-> threshold.d * 20]
            ELSE IF Len(final) < cfg.target_species_count \div 2 /\ Len(final) > 1
            THEN [n |-> threshold.n * 19, d |-> threshold.d * 20]
            ELSE threshold ]

\* the places of the genomes: (index of the species, index in its list)
Slots(sps) == UNION {{<<i, j>> : j \in DOMAIN sps[i].genomes} : i \in DOMAIN sps}

\* a variant that evaluates the genomes of the first species only
evaluate_first_species_only(sps, fitness_fn) ==
  [i \in DOMAIN sps |->
     IF i # 1 THEN sps[i]
     ELSE [sps[i] EXCEPT !.genomes =
             [j \in DOMAIN sps[i].genomes |->
                [sps[i].genomes[j] EXCEPT !.fitness = fitness_fn[<<i, j>>]]]]]

\* a variant that also makes the first member the representative
evaluate_moving_representative(sps, fitness_fn) ==
  [i \in DOMAIN sps |->
     [sps[i] EXCEPT !.genomes =
                      [j \in DOMAIN sps[i].genomes |->
                         [sps[i].genomes[j] EXCEPT !.fitness = fitness_fn[<<i, j>>]]],
                    !.representative =
                      IF sps[i].genomes = <<>> THEN @
                      ELSE [sps[i].genomes[1] EXCEPT !.fitness = fitness_fn[<<i, 1>>]]]]

\* Population::evaluate; fitness_fn gives the value the caller's function
\* returns for the genome at each place
evaluate(sps, fitness_fn) ==
  [i \in DOMAIN sps |->
     [sps[i] EXCEPT !.genomes =
        [j \in DOMAIN sps[i].genomes |->
           [sps[i].genomes[j] EXCEPT !.fitness = fitness_fn[<<i, j>>]]]]]

----------------------------------------------------------------------------
(* The population specification: Population::new, then any sequence of     *)
(* evaluate and evolve calls.  ppc is the position inside the constructor  *)
(* ("new", the loop that fills the initial species, which is held in       *)
(* species while it is filled) or inside evolve ("breed", "fill",          *)
(* "speciate"); between calls it is "idle".  new_generation and bred keep  *)
(* the generation the last evolve made until the next evolve starts.       *)

PopInit ==
  /\ PureIdle
  /\ MgrIdle
  /\ ParIdle
  /\ RegIdle
  /\ GenIdle
  /\ TwinIdle
  /\ \E env \in Environments, cfg \in PopConfigs :
       \E weights \in [1 .. ((env.input_size + 1) * env.output_size) -> TemplateWeights] :
         LET made == create_initial_genome(env.input_size, env.output_size,
                                           InnovationRecord_new, weights)
         IN  /\ innovation = made.rec
             /\ initial_genome = made.g
             /\ config = cfg
             /\ species = <<Species_new(0, made.g)>>
  /\ species_counter = 1
  /\ generation = 0
  /\ best_genome = None
  /\ best_fitness = 0
  /\ new_generation = <<>>
  /\ offspring_per_species = <<>>
  /\ cursor = NoCursor
  /\ ppc = "new"
  /\ bred = <<>>

\* one turn of the loop of Population::new: a copy of the initial genome,
\* mutated zero to two times, joins the initial species
PopNew ==
  /\ ppc = "new"
  /\ \E rounds \in 0 .. 2 :
       \E out \in MutateRounds(initial_genome, innovation, config,
                               PopMaxNodes, PopMaxConns, rounds) :
         /\ species' = [species EXCEPT ![1].genomes = Append(@, out.g)]
         /\ innovation' = out.rec
  /\ ppc' = IF Len(species[1].genomes) + 1 >= config.population_size
            THEN "idle" ELSE "new"
  /\ UNCHANGED <<species_counter, generation, config, best_genome, best_fitness,
                 initial_genome, new_generation, offspring_per_species, cursor, bred,
                 regvars, genvars, twinvars, purevars, mgrvars, parvars>>

\* Population::evaluate with any fitness function
PopEvaluate ==
  /\ ppc = "idle"
  /\ generation < MaxGenerations
  /\ \E fitness_fn \in [Slots(species) -> FitnessValues] :
       /\ species' = evaluate(species, fitness_fn)
       /\ applied' = [op |-> "evaluate", fitness_fn |-> fitness_fn]
  /\ UNCHANGED <<innovation, species_counter, generation, config, best_genome,
                 best_fitness, initial_genome, new_generation, offspring_per_species,
                 cursor, ppc, bred, regvars, genvars, twinvars, network, mgrvars, parvars>>

\* Population::evolve up to the breeding loops: the generation counter and
\* steps 1 to 3 of reproduce
PopEvolve ==
  /\ ppc = "idle"
  /\ generation < MaxGenerations
  /\ generation' = generation + 1
  /\ LET stats == UpdateStatistics(species, 1, config,
                    [ species |-> <<>>, best_fitness |-> best_fitness,
                      best_genome |-> best_genome, stagnant_species |-> {},
                      total_adjusted_fitness |-> [n |-> 0, d |-> 1] ])
         retained == IF Len(stats.species) > 1
                     THEN SelectSeq(stats.species,
                                    LAMBDA sp : sp.id \notin stats.stagnant_species)
                     ELSE stats.species
         counts == [i \in DOMAIN retained |->
                      offspring_count(retained[i], retained,
                                      stats.total_adjusted_fitness, config)]
         elites == IF config.elitism > 0 THEN Elitism(retained, 1, config, <<>>)
                   ELSE <<>>
         first == [species_idx |-> NextBreeder(retained, counts, 1), made |-> 0]
     IN  /\ species' = retained
         /\ best_fitness' = stats.best_fitness
         /\ best_genome' = stats.best_genome
         /\ offspring_per_species' = counts
         /\ new_generation' = elites
         /\ cursor' = first
         /\ ppc' = Continue(Len(elites), first, config)
         /\ bred' = [i \in DOMAIN elites |-> "elite"]
  /\ applied' = [op |-> "none"]
  /\ UNCHANGED <<innovation, species_counter, config, initial_genome, regvars, genvars,
                 twinvars, network, mgrvars, parvars>>

\* one turn of the inner loop of step 4: a child by crossover or by cloning,
\* mutated and pushed
PopBreed ==
  /\ ppc = "breed"
  /\ \E made \in BreedChildren(breeding_pool(species[cursor.species_idx], config), config) :
       \E out \in mutate(made.g, innovation, config, PopMaxNodes, PopMaxConns) :
         /\ new_generation' = Append(new_generation, out.g)
         /\ innovation' = out.rec
         /\ bred' = Append(bred, made.kind)
  /\ cursor' = AdvanceCursor(species, offspring_per_species, cursor.species_idx, cursor.made)
  /\ ppc' = Continue(Len(new_generation) + 1, cursor', config)
  /\ UNCHANGED <<species, species_counter, generation, config, best_genome,
                 best_fitness, initial_genome, offspring_per_species, regvars, genvars, twinvars, purevars, mgrvars, parvars>>

\* one turn of the fill loop of reproduce
PopFill ==
  /\ ppc = "fill"
  /\ LET template == IF best_genome # None THEN best_genome[1] ELSE initial_genome
     IN  \E out \in mutate(from_existing(template), innovation, config,
                           PopMaxNodes, PopMaxConns) :
           /\ new_generation' = Append(new_generation, out.g)
           /\ innovation' = out.rec
  /\ ppc' = Continue(Len(new_generation) + 1, NoCursor, config)
  /\ cursor' = NoCursor
  /\ bred' = Append(bred, "fill")
  /\ UNCHANGED <<species, species_counter, generation, config, best_genome,
                 best_fitness, initial_genome, offspring_per_species, regvars, genvars, twinvars, purevars, mgrvars, parvars>>

\* the end of evolve: speciate on the new generation
PopSpeciate ==
  /\ ppc = "speciate"
  /\ LET res == speciate(species, species_counter, new_generation, config)
     IN  /\ species' = res.species
         /\ species_counter' = res.species_counter
         /\ config' = [config EXCEPT !.compatibility_threshold = res.compatibility_threshold]
  /\ offspring_per_species' = <<>>
  /\ cursor' = NoCursor
  /\ ppc' = "idle"
  /\ UNCHANGED <<innovation, generation, best_genome, best_fitness, initial_genome,
                 new_generation, bred, regvars, genvars, twinvars, purevars, mgrvars, parvars>>

PopNext == PopNew \/ PopEvaluate \/ PopEvolve \/ PopBreed \/ PopFill \/ PopSpeciate

SpecPop == PopInit /\ [][PopNext]_vars

----------------------------------------------------------------------------
(* The twin specification: two runs of the program started with the same   *)
(* configuration and the same seed.  Each run creates the initial genome   *)
(* and calls Genome::mutate on it again and again.  What the seeded        *)
(* generator yields is the same in both runs; the order in which a HashMap *)
(* hands out its keys depends on the hasher keys std draws for each        *)
(* process, so each run iterates in an order of its own.                   *)

TwinMaxNodes == 4
TwinMaxConns == 5

\* the values of a raw index draw of the seeded generator
IndexDraws == 0 .. 1

\* rng.random_range(0..len) for the raw draw u, as a 1-based position
Position(u, len) == (u % len) + 1

\* Genome::mutate with the generator's draws given: draws.connection and
\* draws.node are the outcomes of the two probability draws, draws.pair,
\* draws.weight and draws.split the values drawn inside the two mutations;
\* hasher gives the order in which this run's maps hand out their keys
mutate_seeded(g, r, draws, hasher) ==
  LET node_order == KeyOrder(DOMAIN g.nodes, hasher)
      possible == possible_connections(g, node_order)
      x == IF draws.connection /\ possible # <<>>
           THEN add_connection_mutation(g, r, node_order,
                                        Position(draws.pair, Len(possible)), draws.weight)
           ELSE [g |-> g, rec |-> r]
      connection_order == KeyOrder(DOMAIN x.g.connections, hasher)
  IN  IF draws.node /\ connection_order # <<>>
      THEN add_node_mutation(x.g, x.rec, connection_order,
                             Position(draws.split, Len(connection_order)))
      ELSE x

TwinInit ==
  /\ PureIdle
  /\ MgrIdle
  /\ ParIdle
  /\ RegIdle
  /\ GenIdle
  /\ PopIdle
  /\ innovation = InnovationRecord_new
  /\ \E env \in Environments, hasher1 \in Hashers, hasher2 \in Hashers :
       \E weights \in [1 .. ((env.input_size + 1) * env.output_size) -> WeightGrid] :
         LET made == create_initial_genome(env.input_size, env.output_size,
                                           InnovationRecord_new, weights)
         IN  runs = <<[genome |-> made.g, innovation |-> made.rec, hasher |-> hasher1],
                      [genome |-> made.g, innovation |-> made.rec, hasher |-> hasher2]>>

\* both runs call Genome::mutate with the same configuration (weight and
\* toggle probabilities 0) and the same draws of the seeded generator
TwinMutate ==
  \E cfg \in PopConfigs :
    \E connection \in Chance(cfg.new_connection_prob), node \in Chance(cfg.new_node_prob),
       pair \in IndexDraws, split \in IndexDraws, weight \in WeightGrid :
      LET draws == [connection |-> connection, node |-> node, pair |-> pair,
                    split |-> split, weight |-> weight]
          Step(run) == mutate_seeded(run.genome, run.innovation, draws, run.hasher)
          Bounded(out) == /\ out.rec.node_innovation_counter <= TwinMaxNodes
                          /\ out.rec.connection_innovation_counter <= TwinMaxConns
      IN  /\ Bounded(Step(runs[1]))
          /\ Bounded(Step(runs[2]))
          /\ runs' = [i \in DOMAIN runs |->
                        [runs[i] EXCEPT !.genome = Step(runs[i]).g,
                                        !.innovation = Step(runs[i]).rec]]
          /\ UNCHANGED <<innovation, regvars, genvars, popvars, purevars, mgrvars, parvars>>

TwinNext == TwinMutate

SpecTwin == TwinInit /\ [][TwinNext]_vars

----------------------------------------------------------------------------
(* The distance specification: Genome::compatibility_distance applied to   *)
(* two genomes and a pair of coefficients drawn from bounded sets.  A      *)
(* genome carries either no common block or the block of genes 0 ..        *)
(* DistBlock-1, all of one weight, and on top any of the genes of          *)
(* DistExtras with any weights, so that genomes below and above the size   *)
(* at which the distance starts to normalize both occur.                   *)

DistBlock == 19

DistExtras == {DistBlock, DistBlock + 1, DistBlock + 2}

DistCoefficients == {1, 2}

\* a connection gene of an input genome
DistGene(i, w) ==
  [innovation |-> i, in_node |-> 0, out_node |-> i + 1, weight |-> w, enabled |-> TRUE]

\* the genomes the distance is applied to
DistGenomes ==
  {[Genome_new EXCEPT
      !.connections = [i \in block \cup extras |->
                         IF i \in block THEN DistGene(i, block_weight)
                         ELSE DistGene(i, weights[i])],
      !.connection_set = {<<0, i + 1>> : i \in block \cup extras},
      !.fitness = 1] :
     block \in {{}, 0 .. (DistBlock - 1)}, block_weight \in WeightGrid,
     extras \in SUBSET DistExtras, weights \in [DistExtras -> WeightGrid]}

DistInit ==
  /\ innovation = InnovationRecord_new
  /\ RegIdle
  /\ GenIdle
  /\ PopIdle
  /\ TwinIdle
  /\ MgrIdle
  /\ ParIdle
  /\ network = NoNetwork
  /\ \E self \in DistGenomes, other \in DistGenomes :
       \E cd \in DistCoefficients, cw \in DistCoefficients :
         applied = [ op |-> "input", self |-> self, other |-> other,
                     config |-> [compatibility_disjoint_coefficient |-> cd,
                                 compatibility_weight_coefficient |-> cw] ]

\* compatibility_distance called in both directions, on the receiver itself
\* and on the receiver's clone and its from_existing copy
DistApply ==
  /\ applied.op = "input"
  /\ applied' =
       [ op |-> "compatibility_distance",
         self |-> applied.self, other |-> applied.other, config |-> applied.config,
         forward |-> compatibility_distance(applied.self, applied.other, applied.config),
         backward |-> compatibility_distance(applied.other, applied.self, applied.config),
         to_self |-> compatibility_distance(applied.self, applied.self, applied.config),
         to_clone |-> compatibility_distance(applied.self, applied.self, applied.config),
         to_copy |-> compatibility_distance(applied.self, from_existing(applied.self),
                                            applied.config) ]
  /\ UNCHANGED <<innovation, regvars, genvars, popvars, twinvars, network, mgrvars, parvars>>

DistNext == DistApply

SpecDist == DistInit /\ [][DistNext]_vars

----------------------------------------------------------------------------
(* The crossover specification: Genome::crossover applied to two parents   *)
(* drawn from a bounded family of genomes of one registry.  Every parent   *)
(* has the two genes of genesis (0: 0 -> 2, 1: 1 -> 2) and any of the      *)
(* genes 2: 0 -> 3 and 3: 3 -> 2 of the split of gene 0 and the added      *)
(* gene 4: 1 -> 3; what the call can return is recorded as a set, one      *)
(* child for every outcome of its coins.                                   *)

\* the (in_node, out_node) pairs the registry holds, by innovation id
CrossPairs == <<<<0, 2>>, <<1, 2>>, <<0, 3>>, <<3, 2>>, <<1, 3>>>>

\* the node map of a parent with the genes ids: the hidden node 3 is there
\* when one of its genes is
CrossNodeMap(ids) ==
  LET made == create_initial_genome(1, 1, InnovationRecord_new, <<1, 1>>).g
  IN  IF \E i \in ids : 3 \in {CrossPairs[i + 1][1], CrossPairs[i + 1][2]}
      THEN MapInsert(made.nodes, 3, NodeGene_new(3, default_activation_function))
      ELSE made.nodes

\* the parents crossover is applied to
CrossParents ==
  {[ nodes |-> CrossNodeMap({0, 1} \cup optional),
     connections |->
       [i \in {0, 1} \cup optional |->
          [ innovation |-> i,
            in_node |-> CrossPairs[i + 1][1], out_node |-> CrossPairs[i + 1][2],
            weight |-> IF i = 0 THEN weight0 ELSE IF i = 4 THEN weight4 ELSE 1,
            enabled |-> IF i = 0 THEN enabled0 ELSE TRUE ]],
     connection_set |-> {CrossPairs[i + 1] : i \in {0, 1} \cup optional},
     input_nodes |-> <<0>>, bias_node |-> 1, output_nodes |-> <<2>>,
     fitness |-> fitness, adjusted_fitness |-> [n |-> 0, d |-> 1] ] :
     optional \in {{}, {2, 3}, {2, 3, 4}},
     weight0 \in WeightGrid, weight4 \in WeightGrid, enabled0 \in BOOLEAN,
     fitness \in FitnessValues}

CrossInit ==
  /\ innovation = InnovationRecord_new
  /\ RegIdle
  /\ GenIdle
  /\ PopIdle
  /\ TwinIdle
  /\ MgrIdle
  /\ ParIdle
  /\ network = NoNetwork
  /\ \E self \in CrossParents, other \in CrossParents :
       applied = [op |-> "input", self |-> self, other |-> other]

\* self.crossover(other): every child the call can return
CrossApply ==
  /\ applied.op = "input"
  /\ applied' = [ op |-> "crossover", self |-> applied.self, other |-> applied.other,
                  children |-> crossover(applied.self, applied.other) ]
  /\ UNCHANGED <<innovation, regvars, genvars, popvars, twinvars, network, mgrvars, parvars>>

CrossNext == CrossApply

SpecCross == CrossInit /\ [][CrossNext]_vars

----------------------------------------------------------------------------
(* nn/nn.rs, nn/feedforward.rs: the feedforward evaluator.  A Result is    *)
(* modelled by its tag: "Ok", the NetworkError variants "InvalidGenome"    *)
(* and "InvalidInput", and "panic" for an unwrap of None, which aborts the *)
(* call.                                                                   *)

\* the node ids in map iteration order, each with its position
NodeToIndex(g, hasher) ==
  LET keys == KeyOrder(DOMAIN g.nodes, hasher)
  IN  [id \in DOMAIN g.nodes |-> (CHOOSE k \in DOMAIN keys : keys[k] = id) - 1]

RECURSIVE BuildAdjacency(_, _, _)
\* the loop over genome.connections.values(): the out_node of every enabled
\* connection is pushed on the list of its in_node, which must be a node
BuildAdjacency(g, order, adjacency_list) ==
  IF order = <<>> THEN [panic |-> FALSE, adjacency_list |-> adjacency_list]
  ELSE LET conn == g.connections[Head(order)]
       IN  IF ~conn.enabled THEN BuildAdjacency(g, Tail(order), adjacency_list)
           ELSE IF conn.in_node \notin DOMAIN adjacency_list
           THEN [panic |-> TRUE, adjacency_list |-> adjacency_list]
           ELSE BuildAdjacency(g, Tail(order),
                  [adjacency_list EXCEPT ![conn.in_node] = Append(@, conn.out_node)])

\* the initial in-degrees: 0 for every node, one more for every edge into
\* it; an edge into an id that is no node makes an entry for that id
InDegree(g, working_graph) ==
  LET edges == UNION {{<<m, k>> : k \in DOMAIN working_graph[m]} : m \in DOMAIN working_graph}
      targets == {working_graph[e[1]][e[2]] : e \in edges}
  IN  [n \in (DOMAIN g.nodes) \cup targets |->
         Cardinality({e \in edges : working_graph[e[1]][e[2]] = n})]

RECURSIVE ProcessEdges(_, _, _)
\* the loop over the outgoing edges of a sorted node
ProcessEdges(node, edges, acc) ==
  IF edges = <<>> THEN acc
  ELSE LET next == Head(edges)
           degree == acc.in_degree[next] - 1
       IN  ProcessEdges(node, Tail(edges),
             [ used_connections |-> acc.used_connections \cup {<<node, next>>},
               in_degree |-> [acc.in_degree EXCEPT ![next] = degree],
               queue |-> IF degree = 0 THEN Append(acc.queue, next) ELSE acc.queue ])

RECURSIVE TopologicalSort(_, _, _, _, _)
\* the while loop of the topological sort
TopologicalSort(queue, sorted_nodes, in_degree, used_connections, working_graph) ==
  IF queue = <<>>
  THEN [panic |-> FALSE, sorted_nodes |-> sorted_nodes, used_connections |-> used_connections]
  ELSE LET node == Head(queue)
       IN  IF node \notin DOMAIN working_graph
           THEN [panic |-> TRUE, sorted_nodes |-> Append(sorted_nodes, node),
                 used_connections |-> used_connections]
           ELSE LET step == ProcessEdges(node, working_graph[node],
                              [ used_connections |-> used_connections,
                                in_degree |-> in_degree, queue |-> Tail(queue) ])
                IN  TopologicalSort(step.queue, Append(sorted_nodes, node), step.in_degree,
                                    step.used_connections,
                                    [working_graph EXCEPT ![node] = <<>>])

\* FeedforwardNetwork::new; hasher gives the iteration order of the maps
FeedforwardNetwork_new(g, hasher) ==
  LET built == BuildAdjacency(g, KeyOrder(DOMAIN g.connections, hasher),
                              [id \in DOMAIN g.nodes |-> <<>>])
      in_degree == InDegree(g, built.adjacency_list)
      queue == SelectSeq(KeyOrder(DOMAIN in_degree, hasher), LAMBDA n : in_degree[n] = 0)
      sort == TopologicalSort(queue, <<>>, in_degree, {}, built.adjacency_list)
  IN  IF built.panic \/ sort.panic THEN [result |-> "panic", network |-> NoNetwork]
      ELSE [ result |-> "Ok",
             network |-> [ kind |-> "feedforward", genome |-> g,
                           sorted_nodes |-> sort.sorted_nodes,
                           node_to_index |-> NodeToIndex(g, hasher),
                           used_connections |-> sort.used_connections ] ]

\* ActivationFunction::activate, for the two functions that are exact on
\* integers
Activate(activation, x) ==
  IF activation = "Relu" THEN Max({x, 0}) ELSE x

RECURSIVE SumOf(_, _)
\* the sum of f over the set S
SumOf(f, S) ==
  IF S = {} THEN 0 ELSE LET x == CHOOSE y \in S : TRUE IN f[x] + SumOf(f, S \ {x})

RECURSIVE EvaluateNodes_bias_one(_, _, _)
\* a variant that gives the bias node the value 1
EvaluateNodes_bias_one(net, order, outputs) ==
  IF order = <<>> THEN outputs
  ELSE LET node_id == Head(order)
           g == net.genome
           incoming == {i \in DOMAIN g.connections :
                          /\ g.connections[i].out_node = node_id
                          /\ g.connections[i].enabled
                          /\ Pair(g.connections[i]) \in net.used_connections
                          /\ g.connections[i].in_node \in DOMAIN net.node_to_index
                          /\ g.connections[i].out_node \in DOMAIN net.node_to_index}
           weighted_inputs ==
             [i \in incoming |->
                outputs[net.node_to_index[g.connections[i].in_node] + 1]
                  * g.connections[i].weight]
       IN  IF node_id \in ToSet(g.input_nodes)
           THEN EvaluateNodes_bias_one(net, Tail(order), outputs)
           ELSE EvaluateNodes_bias_one(net, Tail(order),
                  [outputs EXCEPT ![net.node_to_index[node_id] + 1] =
                     IF node_id = g.bias_node THEN 1
                     ELSE Activate(g.nodes[node_id].activation,
                                   SumOf(weighted_inputs, incoming))])

RECURSIVE EvaluateNodes(_, _, _)
\* the loop over sorted_nodes of FeedforwardNetwork::activate
EvaluateNodes(net, order, outputs) ==
  IF order = <<>> THEN outputs
  ELSE LET node_id == Head(order)
           g == net.genome
           incoming == {i \in DOMAIN g.connections :
                          /\ g.connections[i].out_node = node_id
                          /\ g.connections[i].enabled
                          /\ Pair(g.connections[i]) \in net.used_connections
                          /\ g.connections[i].in_node \in DOMAIN net.node_to_index
                          /\ g.connections[i].out_node \in DOMAIN net.node_to_index}
           weighted_inputs ==
             [i \in incoming |->
                outputs[net.node_to_index[g.connections[i].in_node] + 1]
                  * g.connections[i].weight]
       IN  IF node_id \in ToSet(g.input_nodes) THEN EvaluateNodes(net, Tail(order), outputs)
           ELSE EvaluateNodes(net, Tail(order),
                  [outputs EXCEPT ![net.node_to_index[node_id] + 1] =
                     Activate(g.nodes[node_id].activation, SumOf(weighted_inputs, incoming))])

\* FeedforwardNetwork::activate
FeedforwardNetwork_activate(net, inputs) ==
  LET g == net.genome
      zeros == [k \in 1 .. Cardinality(DOMAIN g.nodes) |-> 0]
      with_inputs == [k \in DOMAIN zeros |->
                IF \E i \in DOMAIN g.input_nodes :
                     /\ g.input_nodes[i] \in DOMAIN net.node_to_index
                     /\ net.node_to_index[g.input_nodes[i]] + 1 = k
                THEN inputs[CHOOSE i \in DOMAIN g.input_nodes :
                              /\ g.input_nodes[i] \in DOMAIN net.node_to_index
                              /\ net.node_to_index[g.input_nodes[i]] + 1 = k]
                ELSE 0]
      outputs == EvaluateNodes(net, net.sorted_nodes, with_inputs)
      present == SelectSeq(g.output_nodes, LAMBDA id : id \in DOMAIN net.node_to_index)
  IN  IF Len(inputs) # Len(g.input_nodes)
      THEN [result |-> "InvalidInput", outputs |-> <<>>, network |-> net]
      ELSE [ result |-> "Ok",
             outputs |-> [k \in DOMAIN present |-> outputs[net.node_to_index[present[k]] + 1]],
             network |-> net ]

----------------------------------------------------------------------------
(* nn/ctrnn.rs: the continuous-time evaluator.  States are exact           *)
(* fractions [n, d] with d > 0.                                            *)

\* the time constant and the bias create_initial_genome and add_node_mutation
\* give a node, sampled by one value of each range
NodeTimeConstant == 1
NodeBias == 0

Frac(x) == [n |-> x, d |-> 1]
FracSub(x, y) == [n |-> x.n * y.d - y.n * x.d, d |-> x.d * y.d]
FracMul(x, y) == [n |-> x.n * y.n, d |-> x.d * y.d]

\* ActivationFunction::activate on a fraction
\* Sigmoid and Tanh are given at 0 only, the one argument at which they are
\* rational; LeakyRelu is x.max(0.01 * x)
ActivateFrac(activation, x) ==
  IF activation = "Relu" THEN (IF x.n < 0 THEN Frac(0) ELSE x)
  ELSE IF activation = "LeakyRelu" THEN (IF x.n < 0 THEN [n |-> x.n, d |-> x.d * 100] ELSE x)
  ELSE IF activation = "Sigmoid" THEN [z \in {0} |-> [n |-> 1, d |-> 2]][x.n]
  ELSE IF activation = "Tanh" THEN [z \in {0} |-> Frac(0)][x.n]
  ELSE x

\* the default time step
CtrnnDt == [n |-> 1, d |-> 10]

RECURSIVE PreprocessConnections(_, _, _)
\* the loop that turns the enabled connections into index triples; a
\* connection with an endpoint outside the node map is skipped
PreprocessConnections(g, order, node_to_index) ==
  IF order = <<>> THEN <<>>
  ELSE LET conn == g.connections[Head(order)]
           rest == PreprocessConnections(g, Tail(order), node_to_index)
       IN  IF /\ conn.enabled
              /\ conn.in_node \in DOMAIN node_to_index
              /\ conn.out_node \in DOMAIN node_to_index
           THEN << <<node_to_index[conn.in_node], node_to_index[conn.out_node],
                     conn.weight>> >> \o rest
           ELSE rest

\* CtrnnNetwork::new; hasher gives the iteration order of the maps
CtrnnNetwork_new(g, hasher) ==
  LET node_to_index == NodeToIndex(g, hasher)
      keys == KeyOrder(DOMAIN g.nodes, hasher)
  IN  [ result |-> "Ok",
        network |-> [ kind |-> "ctrnn", genome |-> g,
                      states |-> [k \in DOMAIN keys |-> Frac(0)],
                      time_constants |-> [k \in DOMAIN keys |-> g.nodes[keys[k]].time_constant],
                      biases |-> [k \in DOMAIN keys |-> g.nodes[keys[k]].bias],
                      node_to_index |-> node_to_index,
                      connections |-> PreprocessConnections(
                                        g, KeyOrder(DOMAIN g.connections, hasher),
                                        node_to_index),
                      dt |-> CtrnnDt ] ]

RECURSIVE InputSum(_, _, _, _)
\* the weighted input of the neuron with index i, added to acc
InputSum(connections, states, i, acc) ==
  IF connections = <<>> THEN acc
  ELSE LET c == Head(connections)
       IN  InputSum(Tail(connections), states, i,
             IF c[2] = i
             THEN FracAdd(acc, FracMul(states[c[1] + 1], Frac(c[3])))
             ELSE acc)

\* the states after the inputs and the bias node are written
WriteInputs(net, inputs) ==
  LET g == net.genome
      IsInput(k) == \E i \in DOMAIN g.input_nodes :
                      /\ i \in DOMAIN inputs
                      /\ g.input_nodes[i] \in DOMAIN net.node_to_index
                      /\ net.node_to_index[g.input_nodes[i]] + 1 = k
      InputOf(k) == CHOOSE i \in DOMAIN g.input_nodes :
                      /\ i \in DOMAIN inputs
                      /\ g.input_nodes[i] \in DOMAIN net.node_to_index
                      /\ net.node_to_index[g.input_nodes[i]] + 1 = k
  IN  [k \in DOMAIN net.states |->
         IF g.bias_node \in DOMAIN net.node_to_index
            /\ net.node_to_index[g.bias_node] + 1 = k
         THEN Frac(1)
         ELSE IF IsInput(k) THEN Frac(inputs[InputOf(k)])
         ELSE net.states[k]]

\* the Euler step over every neuron that is not an input
EulerStep(net, states) ==
  LET g == net.genome
      IsInputIndex(k) == \E i \in DOMAIN g.input_nodes :
                           /\ g.input_nodes[i] \in DOMAIN net.node_to_index
                           /\ net.node_to_index[g.input_nodes[i]] + 1 = k
      NodeAt(k) == g.nodes[CHOOSE id \in DOMAIN g.nodes : net.node_to_index[id] + 1 = k]
  IN  [k \in DOMAIN states |->
         IF IsInputIndex(k) THEN states[k]
         ELSE LET input_sum == InputSum(net.connections, states, k - 1, Frac(net.biases[k]))
                  target_activation == ActivateFrac(NodeAt(k).activation, input_sum)
                  diff == FracSub(target_activation, states[k])
                  dy == [n |-> diff.n, d |-> diff.d * net.time_constants[k]]
              IN  FracAdd(states[k], FracMul(dy, net.dt))]

\* CtrnnNetwork::reset_states
reset_states(net) ==
  [net EXCEPT !.states =
     [k \in DOMAIN net.states |->
        IF net.genome.bias_node \in DOMAIN net.node_to_index
           /\ net.node_to_index[net.genome.bias_node] + 1 = k
        THEN Frac(1) ELSE Frac(0)]]

\* a variant that writes the inputs it is given before it checks their number
CtrnnNetwork_activate_late_check(net, inputs) ==
  IF Len(inputs) # Len(net.genome.input_nodes)
  THEN [ result |-> "InvalidInput", outputs |-> <<>>,
         network |-> [net EXCEPT !.states = WriteInputs(net, inputs)] ]
  ELSE LET next_states == EulerStep(net, WriteInputs(net, inputs))
           present == SelectSeq(net.genome.output_nodes,
                                LAMBDA id : id \in DOMAIN net.node_to_index)
       IN  [ result |-> "Ok",
             outputs |-> [k \in DOMAIN present |->
                            next_states[net.node_to_index[present[k]] + 1]],
             network |-> [net EXCEPT !.states = next_states] ]

\* CtrnnNetwork::activate
CtrnnNetwork_activate(net, inputs) ==
  IF Len(inputs) # Len(net.genome.input_nodes)
  THEN [result |-> "InvalidInput", outputs |-> <<>>, network |-> net]
  ELSE LET next_states == EulerStep(net, WriteInputs(net, inputs))
           present == SelectSeq(net.genome.output_nodes,
                                LAMBDA id : id \in DOMAIN net.node_to_index)
       IN  [ result |-> "Ok",
             outputs |-> [k \in DOMAIN present |->
                            next_states[net.node_to_index[present[k]] + 1]],
             network |-> [net EXCEPT !.states = next_states] ]

----------------------------------------------------------------------------
(* The evaluator specification: an evaluator of either kind is built from  *)
(* a genome and activated with input vectors of any length.  The genomes   *)
(* have the nodes of genesis (input 0, bias 1, output 2) and the hidden    *)
(* node 3 of the split of gene 0; genes 4 and 5 are added connections      *)
(* that close cycles.  Genes 6 and 7 name the id 4, which is no node: the  *)
(* fields of Genome are public, so a caller can hand over such a genome.   *)

NetMaxCalls == 2
NetMaxInputLen == 2

\* the (in_node, out_node) pairs by innovation id
NetPairs == <<<<0, 2>>, <<1, 2>>, <<0, 3>>, <<3, 2>>, <<3, 1>>, <<1, 3>>, <<3, 4>>, <<4, 2>>>>

\* the activation functions that are exact on the sampled values
NetActivations == {"Identity", "Relu"}

NetWeights == {-1, 1}

NetNode(id, activation) ==
  [ id |-> id, activation |-> activation,
    time_constant |-> NodeTimeConstant, bias |-> NodeBias ]

NetGenomes ==
  { [ nodes |-> [id \in 0 .. 3 |->
                   NetNode(id, IF id \in {0, 1} THEN "Identity" ELSE activation)],
      connections |->
        [i \in {0, 1, 2, 3} \cup added \cup dangling |->
           [ innovation |-> i, in_node |-> NetPairs[i + 1][1],
             out_node |-> NetPairs[i + 1][2],
             weight |-> IF i = 3 THEN weight3 ELSE 1,
             enabled |-> IF i = 0 THEN enabled0
                         ELSE IF i \in dangling THEN enabled_dangling ELSE TRUE ]],
      connection_set |-> {NetPairs[i + 1] : i \in {0, 1, 2, 3} \cup added \cup dangling},
      input_nodes |-> <<0>>, bias_node |-> 1, output_nodes |-> <<2>>,
      fitness |-> 0, adjusted_fitness |-> [n |-> 0, d |-> 1] ] :
    added \in SUBSET {4, 5}, dangling \in {{}, {6}, {7}}, activation \in NetActivations,
    weight3 \in NetWeights, enabled0 \in BOOLEAN, enabled_dangling \in BOOLEAN }

\* the input vectors, of the right length and of the wrong ones
NetInputs == UNION {[1 .. n -> {0, 1}] : n \in 0 .. NetMaxInputLen}

NetInit ==
  /\ innovation = InnovationRecord_new
  /\ RegIdle
  /\ GenIdle
  /\ PopIdle
  /\ TwinIdle
  /\ MgrIdle
  /\ ParIdle
  /\ network = NoNetwork
  /\ \E g \in NetGenomes, hasher \in Hashers :
       applied = [op |-> "input", genome |-> g, hasher |-> hasher]

\* FeedforwardNetwork::new(&genome)
FeedNew ==
  /\ applied.op = "input"
  /\ LET made == FeedforwardNetwork_new(applied.genome, applied.hasher)
     IN  /\ network' = made.network
         /\ applied' = [ op |-> "new", kind |-> "feedforward", genome |-> applied.genome,
                         result |-> made.result, calls |-> 0 ]
  /\ UNCHANGED <<innovation, regvars, genvars, popvars, twinvars, mgrvars, parvars>>

\* CtrnnNetwork::new(&genome)
CtrnnNew ==
  /\ applied.op = "input"
  /\ LET made == CtrnnNetwork_new(applied.genome, applied.hasher)
     IN  /\ network' = made.network
         /\ applied' = [ op |-> "new", kind |-> "ctrnn", genome |-> applied.genome,
                         result |-> made.result, calls |-> 0 ]
  /\ UNCHANGED <<innovation, regvars, genvars, popvars, twinvars, mgrvars, parvars>>

\* FeedforwardNetwork::activate(&inputs)
FeedActivate ==
  /\ network.kind = "feedforward"
  /\ applied.calls < NetMaxCalls
  /\ \E inputs \in NetInputs :
       LET out == FeedforwardNetwork_activate(network, inputs)
       IN  /\ network' = out.network
           /\ applied' = [ op |-> "activate", kind |-> "feedforward", inputs |-> inputs,
                           result |-> out.result, outputs |-> out.outputs,
                           calls |-> applied.calls + 1 ]
  /\ UNCHANGED <<innovation, regvars, genvars, popvars, twinvars, mgrvars, parvars>>

\* CtrnnNetwork::activate(&inputs)
CtrnnActivate ==
  /\ network.kind = "ctrnn"
  /\ applied.calls < NetMaxCalls
  /\ \E inputs \in NetInputs :
       LET out == CtrnnNetwork_activate(network, inputs)
       IN  /\ network' = out.network
           /\ applied' = [ op |-> "activate", kind |-> "ctrnn", inputs |-> inputs,
                           result |-> out.result, outputs |-> out.outputs,
                           calls |-> applied.calls + 1 ]
  /\ UNCHANGED <<innovation, regvars, genvars, popvars, twinvars, mgrvars, parvars>>

NetNext == FeedNew \/ CtrnnNew \/ FeedActivate \/ CtrnnActivate

SpecNet == NetInit /\ [][NetNext]_vars

----------------------------------------------------------------------------
(* state.rs: SpeciationManager.  The threshold is an exact fraction        *)
(* [n, d] with d > 0; 1.3 is 13/10 and 0.95 is 19/20.                      *)

\* SpeciationManager::new
SpeciationManager_new(compatibility_threshold, current_species_count, target_species_count) ==
  [ compatibility_threshold |-> compatibility_threshold,
    species_counter |-> current_species_count,
    target_species_count |-> target_species_count ]

\* SpeciationManager::new_species: the counter is raised, then returned
new_species(m) ==
  [ mgr |-> [m EXCEPT !.species_counter = @ + 1], out |-> m.species_counter + 1 ]

\* a variant that lowers the threshold by 0.95 instead of scaling it
adjust_threshold_subtracting(m, current_species_count) ==
  IF current_species_count > m.target_species_count * 2
  THEN [m EXCEPT !.compatibility_threshold = [n |-> @.n * 13, d |-> @.d * 10]]
  ELSE IF current_species_count < m.target_species_count \div 2
  THEN [m EXCEPT !.compatibility_threshold = [n |-> @.n * 20 - 19 * @.d, d |-> @.d * 20]]
  ELSE m

\* SpeciationManager::adjust_threshold
adjust_threshold(m, current_species_count) ==
  IF current_species_count > m.target_species_count * 2
  THEN [m EXCEPT !.compatibility_threshold = [n |-> @.n * 13, d |-> @.d * 10]]
  ELSE IF current_species_count < m.target_species_count \div 2
  THEN [m EXCEPT !.compatibility_threshold = [n |-> @.n * 19, d |-> @.d * 20]]
  ELSE m

----------------------------------------------------------------------------
(* The manager specification: a manager is made and then asked for species *)
(* ids and to adjust its threshold, with any species count.                *)

MgrMaxCalls == 4
MgrMaxSpecies == 11
MgrMaxIds == 2

\* the initial thresholds and the targets, even and odd
MgrThresholds == {[n |-> 1, d |-> 2], [n |-> 3, d |-> 1]}
MgrTargets == {2, 5}

MgrInit ==
  /\ innovation = InnovationRecord_new
  /\ RegIdle
  /\ GenIdle
  /\ PopIdle
  /\ TwinIdle
  /\ PureIdle
  /\ ParIdle
  /\ \E threshold \in MgrThresholds, target \in MgrTargets :
       manager = SpeciationManager_new(threshold, 0, target)
  /\ mgr_call = [op |-> "new", calls |-> 0]

\* manager.new_species()
MgrNewSpecies ==
  /\ mgr_call.op # "none"
  /\ manager.species_counter < MgrMaxIds
  /\ LET r == new_species(manager)
     IN  /\ manager' = r.mgr
         /\ mgr_call' = [ op |-> "new_species", out |-> r.out, before |-> manager,
                          calls |-> mgr_call.calls ]
  /\ UNCHANGED <<innovation, regvars, genvars, popvars, twinvars, purevars, parvars>>

\* manager.adjust_threshold(current_species_count)
MgrAdjust ==
  /\ mgr_call.op # "none"
  /\ mgr_call.calls < MgrMaxCalls
  /\ \E current_species_count \in 0 .. MgrMaxSpecies :
       /\ manager' = adjust_threshold(manager, current_species_count)
       /\ mgr_call' = [ op |-> "adjust_threshold",
                        current_species_count |-> current_species_count,
                        before |-> manager, calls |-> mgr_call.calls + 1 ]
  /\ UNCHANGED <<innovation, regvars, genvars, popvars, twinvars, purevars, parvars>>

MgrNext == MgrNewSpecies \/ MgrAdjust

SpecMgr == MgrInit /\ [][MgrNext]_vars

----------------------------------------------------------------------------
(* Parallel evaluation (evaluate_parallel, called by the examples; its     *)
(* definition is not among the sources, so it is modelled from the         *)
(* specification's concurrency section): worker threads take disjoint      *)
(* genomes, call the fitness function on a read-only view of the genome    *)
(* and write that genome's fitness.  Taking a genome and computing its     *)
(* value is one step, writing the value another, so that the writes of     *)
(* the workers interleave in every order.                                  *)

ParWorkers == 2

\* the caller's fitness functions, sampled by two that read the genome only
ParFitnessFns == {"connections", "enabled"}

\* the value the fitness function fn returns for the genome g
FitnessOf(fn, g) ==
  IF fn = "connections" THEN Cardinality(DOMAIN g.connections)
  ELSE Cardinality({i \in DOMAIN g.connections : g.connections[i].enabled})

\* the genomes under evaluation, not yet evaluated
ParGenomes ==
  {g \in CrossParents :
     /\ g.fitness = 0
     /\ g.connections[0].weight = 1
     /\ 4 \in DOMAIN g.connections => g.connections[4].weight = 1}

\* a worker that holds nothing
IdleWorker == [pc |-> "idle", slot |-> <<0, 0>>, value |-> 0]

ParInit ==
  /\ innovation = InnovationRecord_new
  /\ RegIdle
  /\ GenIdle
  /\ TwinIdle
  /\ PureIdle
  /\ MgrIdle
  /\ \E a \in ParGenomes, b \in ParGenomes, c \in ParGenomes :
       species = << [Species_new(0, a) EXCEPT !.genomes = <<a, b>>],
                    [Species_new(1, c) EXCEPT !.genomes = <<c>>] >>
  /\ species_counter = 2
  /\ generation = 0
  /\ config = NoConfig
  /\ best_genome = None
  /\ best_fitness = 0
  /\ initial_genome = Genome_new
  /\ new_generation = <<>>
  /\ offspring_per_species = <<>>
  /\ cursor = NoCursor
  /\ ppc = "idle"
  /\ bred = <<>>
  /\ workers = [w \in 1 .. ParWorkers |-> IdleWorker]
  /\ \E fn \in ParFitnessFns :
       work = [fitness_fn |-> fn, queue |-> Slots(species), before |-> species]

\* a worker takes a genome no worker has taken and calls the fitness function
ParTake(w) ==
  /\ workers[w].pc = "idle"
  /\ \E slot \in work.queue :
       /\ work' = [work EXCEPT !.queue = @ \ {slot}]
       /\ workers' = [workers EXCEPT ![w] =
            [ pc |-> "computed", slot |-> slot,
              value |-> FitnessOf(work.fitness_fn, species[slot[1]].genomes[slot[2]]) ]]
  /\ UNCHANGED <<innovation, regvars, genvars, popvars, twinvars, purevars, mgrvars>>

\* a worker writes the value into the fitness of the genome it took
ParWrite(w) ==
  /\ workers[w].pc = "computed"
  /\ LET slot == workers[w].slot
     IN  species' = [species EXCEPT ![slot[1]].genomes[slot[2]].fitness = workers[w].value]
  /\ workers' = [workers EXCEPT ![w] = IdleWorker]
  /\ UNCHANGED <<innovation, species_counter, generation, config, best_genome,
                 best_fitness, initial_genome, new_generation, offspring_per_species,
                 cursor, ppc, bred, regvars, genvars, twinvars, purevars, mgrvars, work>>

ParNext == \E w \in 1 .. ParWorkers : ParTake(w) \/ ParWrite(w)

SpecPar == ParInit /\ [][ParNext]_vars

----------------------------------------------------------------------------
(* genome/genome.rs: Genome::apply_parsimony_pressure.  Fitness values and *)
(* coefficients are exact fractions [n, d] with d > 0.                     *)

\* (x as f32).powf(1.5), for the perfect squares, where it is an integer
Pow15(x) == LET root == CHOOSE r \in 0 .. x : r * r = x IN root * root * root

\* the floor of the penalized fitness, 0.00001
ParsimonyFloor == [n |-> 1, d |-> 100000]

\* usize::saturating_sub
saturating_sub(a, b) == IF a > b THEN a - b ELSE 0

\* the count the function calls num_hidden_nodes
num_hidden_nodes(g) ==
  Cardinality(DOMAIN g.nodes) - (Len(g.input_nodes) + Len(g.output_nodes))

\* Genome::apply_parsimony_pressure
apply_parsimony_pressure(g, cfg, original_fitness) ==
  IF original_fitness.n <= 0 THEN original_fitness
  ELSE IF num_hidden_nodes(g) <= cfg.complexity_threshold THEN original_fitness
  ELSE LET excess_nodes == saturating_sub(num_hidden_nodes(g), cfg.target_complexity)
           connection_penalty ==
             FracMul(cfg.connections_penalty_coefficient,
                     Frac(Cardinality(DOMAIN g.connections)))
           node_penalty ==
             IF excess_nodes > 0
             THEN FracMul(cfg.complexity_penalty_coefficient, Frac(Pow15(excess_nodes)))
             ELSE Frac(0)
           penalized_fitness ==
             FracSub(FracSub(original_fitness, node_penalty), connection_penalty)
       IN  IF FracLess(penalized_fitness, ParsimonyFloor) THEN ParsimonyFloor
           ELSE penalized_fitness

----------------------------------------------------------------------------
(* The parsimony specification: apply_parsimony_pressure is called once on *)
(* a genome with 0 to ParsMaxSplits hidden nodes, made from the genesis    *)
(* genome by that many add-node mutations.                                 *)

ParsMaxSplits == 3

RECURSIVE ParsGenome(_)
\* the genesis genome after h add-node mutations, each on the last enabled
\* connection
ParsGenome(h) ==
  IF h = 0 THEN create_initial_genome(1, 1, InnovationRecord_new, <<1, 1>>)
  ELSE LET prev == ParsGenome(h - 1)
           ord == Ascending(DOMAIN prev.g.connections)
           enabled == {k \in DOMAIN ord : prev.g.connections[ord[k]].enabled}
       IN  add_node_mutation(prev.g, prev.rec, ord, Max(enabled))

ParsConfigs ==
  [ complexity_threshold : 0 .. ParsMaxSplits,
    target_complexity : {0, ParsMaxSplits},
    complexity_penalty_coefficient : {[n |-> 1, d |-> 2]},
    connections_penalty_coefficient : {[n |-> 0, d |-> 1], [n |-> 1, d |-> 2]} ]

ParsFitness == {Frac(-1), Frac(0), Frac(1), Frac(5)}

\* the excess is a perfect square, or the function returns before it uses it
ParsExact(g, cfg) ==
  LET excess == saturating_sub(num_hidden_nodes(g), cfg.target_complexity)
  IN  \E r \in 0 .. excess : r * r = excess

ParsInit ==
  /\ innovation = InnovationRecord_new
  /\ RegIdle
  /\ GenIdle
  /\ PopIdle
  /\ TwinIdle
  /\ MgrIdle
  /\ ParIdle
  /\ network = NoNetwork
  /\ \E h \in 0 .. ParsMaxSplits, cfg \in ParsConfigs, original_fitness \in ParsFitness :
       /\ ParsExact(ParsGenome(h).g, cfg)
       /\ applied = [ op |-> "input", genome |-> ParsGenome(h).g, config |-> cfg,
                      original_fitness |-> original_fitness ]

\* genome.apply_parsimony_pressure(&config, original_fitness)
ParsApply ==
  /\ applied.op = "input"
  /\ applied' = [ op |-> "apply_parsimony_pressure", genome |-> applied.genome,
                  config |-> applied.config, original_fitness |-> applied.original_fitness,
                  result |-> apply_parsimony_pressure(applied.genome, applied.config,
                                                      applied.original_fitness) ]
  /\ UNCHANGED <<innovation, regvars, genvars, popvars, twinvars, network, mgrvars, parvars>>

ParsNext == ParsApply

SpecPars == ParsInit /\ [][ParsNext]_vars

----------------------------------------------------------------------------
(* The reset specification: a CTRNN is built from a genome whose weights   *)
(* and biases are all 0 and whose hidden and output nodes carry any of the *)
(* activation functions; it is activated, reset and activated again.       *)

ZeroMaxCalls == 2

\* ActivationFunction
ZeroActivations == {"Identity", "Sigmoid", "Tanh", "Relu", "LeakyRelu"}

ZeroGenomes ==
  { [ g EXCEPT
        !.nodes = [id \in DOMAIN g.nodes |->
                     IF id \in {0, 1} THEN g.nodes[id] ELSE NetNode(id, activation)],
        !.connections = [i \in DOMAIN g.connections |->
                           [g.connections[i] EXCEPT !.weight = 0]] ] :
    g \in {x \in NetGenomes : DOMAIN x.connections \subseteq 0 .. 5},
    activation \in ZeroActivations }

ZeroInit ==
  /\ innovation = InnovationRecord_new
  /\ RegIdle
  /\ GenIdle
  /\ PopIdle
  /\ TwinIdle
  /\ MgrIdle
  /\ ParIdle
  /\ \E g \in ZeroGenomes, hasher \in Hashers :
       /\ network = CtrnnNetwork_new(g, hasher).network
       /\ applied = [op |-> "new", calls |-> 0, previous |-> "none"]

\* network.activate(&inputs) with one input
ZeroActivate ==
  /\ applied.calls < ZeroMaxCalls
  /\ \E x \in {0, 1} :
       LET out == CtrnnNetwork_activate(network, <<x>>)
       IN  /\ network' = out.network
           /\ applied' = [ op |-> "activate", inputs |-> <<x>>, result |-> out.result,
                           outputs |-> out.outputs, calls |-> applied.calls + 1,
                           previous |-> applied.op ]
  /\ UNCHANGED <<innovation, regvars, genvars, popvars, twinvars, mgrvars, parvars>>

\* network.reset_states()
ZeroReset ==
  /\ applied.op # "reset_states"
  /\ applied.calls < ZeroMaxCalls
  /\ network' = reset_states(network)
  /\ applied' = [op |-> "reset_states", calls |-> applied.calls, previous |-> applied.op]
  /\ UNCHANGED <<innovation, regvars, genvars, popvars, twinvars, mgrvars, parvars>>

ZeroNext == ZeroActivate \/ ZeroReset

SpecZero == ZeroInit /\ [][ZeroNext]_vars

----------------------------------------------------------------------------
(* The genesis specification: create_initial_genome is called once on a    *)
(* fresh registry, for every number of inputs and outputs up to the bounds *)
(* and every draw of the weights.                                          *)

GenesisMaxInputs == 2
GenesisMaxOutputs == 2

GenesisInit ==
  /\ innovation = InnovationRecord_new
  /\ RegIdle
  /\ GenIdle
  /\ PopIdle
  /\ TwinIdle
  /\ MgrIdle
  /\ ParIdle
  /\ network = NoNetwork
  /\ \E input_size \in 0 .. GenesisMaxInputs, output_size \in 0 .. GenesisMaxOutputs :
       \E weights \in [1 .. ((input_size + 1) * output_size) -> WeightGrid] :
         applied = [ op |-> "input", input_size |-> input_size,
                     output_size |-> output_size, weights |-> weights ]

\* Genome::create_initial_genome(input_size, output_size, .., &mut innovation)
GenesisApply ==
  /\ applied.op = "input"
  /\ LET made == create_initial_genome(applied.input_size, applied.output_size,
                                       innovation, applied.weights)
     IN  /\ innovation' = made.rec
         /\ applied' = [ op |-> "create_initial_genome", input_size |-> applied.input_size,
                         output_size |-> applied.output_size, genome |-> made.g ]
  /\ UNCHANGED <<regvars, genvars, popvars, twinvars, network, mgrvars, parvars>>

GenesisNext == GenesisApply

SpecGenesis == GenesisInit /\ [][GenesisNext]_vars

----------------------------------------------------------------------------
(* The species specification: one species, whose members are evaluated,    *)
(* whose best-fitness record is updated and which is culled, in any order. *)
(* applied holds the species, the last call on it and the species before   *)
(* that call.                                                              *)

\* a variant that keeps the low end of the sorted list
cull_lowest(sp) ==
  LET sorted == SortByFitness(sp.genomes)
      survivors == Ceil(Len(sorted), 2)
  IN  [ species |-> [sp EXCEPT !.genomes = SubSeq(sorted, 1, survivors)],
        survivors |-> survivors ]

\* Species::cull: the species afterwards and the number returned
cull(sp) ==
  LET sorted == SortByFitness(sp.genomes)
      survivors == Ceil(Len(sorted), 2)
  IN  [ species |-> [sp EXCEPT !.genomes =
                       SubSeq(sorted, Len(sorted) - survivors + 1, Len(sorted))],
        survivors |-> survivors ]

SpeciesMaxMembers == 3
SpeciesMaxCalls == 2

\* the fitness values of the members of the species
SpeciesFitness == {-1, 0, 1}

\* the k-th member of the species: genomes of different genes
SpeciesMember(k) ==
  LET optional == IF k = 1 THEN {} ELSE IF k = 2 THEN {2, 3} ELSE {2, 3, 4}
  IN  CHOOSE g \in ParGenomes :
        DOMAIN g.connections = {0, 1} \cup optional /\ g.connections[0].enabled

SpeciesInit ==
  /\ innovation = InnovationRecord_new
  /\ RegIdle
  /\ GenIdle
  /\ PopIdle
  /\ TwinIdle
  /\ MgrIdle
  /\ ParIdle
  /\ network = NoNetwork
  /\ \E n \in 0 .. SpeciesMaxMembers :
       \E fitness \in [1 .. n -> SpeciesFitness], best \in {0, 1} :
         LET sp == [ Species_new(0, SpeciesMember(1)) EXCEPT
                       !.genomes = [k \in 1 .. n |->
                                      [SpeciesMember(k) EXCEPT !.fitness = fitness[k]]],
                       !.best_fitness = best,
                       !.best_fitness_genome =
                           IF best = 0 THEN None
                           ELSE Some([SpeciesMember(1) EXCEPT !.fitness = best]) ]
         IN  applied = [ op |-> "new", calls |-> 0, out |-> 0,
                         before |-> sp, species |-> sp ]

\* the fitness function gives every member a fitness
SpeciesEvaluate ==
  /\ applied.calls < SpeciesMaxCalls
  /\ applied.species.genomes # <<>>
  /\ \E fitness \in [DOMAIN applied.species.genomes -> SpeciesFitness] :
       applied' = [ op |-> "evaluate", calls |-> applied.calls + 1, out |-> 0,
                    before |-> applied.species,
                    species |-> [applied.species EXCEPT !.genomes =
                                   [k \in DOMAIN @ |-> [@[k] EXCEPT !.fitness = fitness[k]]]] ]
  /\ UNCHANGED <<innovation, regvars, genvars, popvars, twinvars, network, mgrvars, parvars>>

\* Species::update_best_fitness
SpeciesUpdateBest ==
  /\ applied.calls < SpeciesMaxCalls
  /\ applied' = [ op |-> "update_best_fitness", calls |-> applied.calls + 1, out |-> 0,
                  before |-> applied.species,
                  species |-> update_best_fitness(applied.species) ]
  /\ UNCHANGED <<innovation, regvars, genvars, popvars, twinvars, network, mgrvars, parvars>>

\* Species::cull
SpeciesCull ==
  /\ applied.calls < SpeciesMaxCalls
  /\ applied' = [ op |-> "cull", calls |-> applied.calls + 1,
                  out |-> cull(applied.species).survivors,
                  before |-> applied.species,
                  species |-> cull(applied.species).species ]
  /\ UNCHANGED <<innovation, regvars, genvars, popvars, twinvars, network, mgrvars, parvars>>

SpeciesNext == SpeciesEvaluate \/ SpeciesUpdateBest \/ SpeciesCull

SpecSpecies == SpeciesInit /\ [][SpeciesNext]_vars

----------------------------------------------------------------------------
(* The breeding specification: one child of one species is made as in step *)
(* 4 of reproduce, for every species of up to BreedMaxMembers members,     *)
(* every survival threshold of the grid and both kinds of child.           *)

BreedMaxMembers == 3

\* survival_threshold, from 0 to 1
BreedThresholds ==
  { [n |-> 0, d |-> 1], [n |-> 1, d |-> 3], [n |-> 1, d |-> 2],
    [n |-> 2, d |-> 3], [n |-> 1, d |-> 1] }

\* crossover_rate: never, sometimes
BreedRates == { [n |-> 0, d |-> 1], [n |-> 3, d |-> 4] }

BreedInit ==
  /\ innovation = InnovationRecord_new
  /\ RegIdle
  /\ GenIdle
  /\ PopIdle
  /\ TwinIdle
  /\ MgrIdle
  /\ ParIdle
  /\ network = NoNetwork
  /\ \E n \in 1 .. BreedMaxMembers :
       \E fitness \in [1 .. n -> FitnessValues],
          threshold \in BreedThresholds, rate \in BreedRates :
         applied =
           [ op |-> "input",
             species |-> [ Species_new(0, SpeciesMember(1)) EXCEPT
                             !.genomes = [k \in 1 .. n |->
                                            [SpeciesMember(k) EXCEPT !.fitness = fitness[k]]] ],
             cfg |-> [survival_threshold |-> threshold, crossover_rate |-> rate] ]

\* one turn of the inner loop of step 4 of reproduce, up to the mutation
BreedApply ==
  /\ applied.op = "input"
  /\ \E made \in BreedChildren(breeding_pool(applied.species, applied.cfg), applied.cfg) :
       applied' = [ op |-> "breed", species |-> applied.species, cfg |-> applied.cfg,
                    kind |-> made.kind, parents |-> made.parents ]
  /\ UNCHANGED <<innovation, regvars, genvars, popvars, twinvars, network, mgrvars, parvars>>

BreedNext == BreedApply

SpecBreed == BreedInit /\ [][BreedNext]_vars

----------------------------------------------------------------------------
(* Claims about the genome under mutation (SpecGenome).                    *)

Genes(g) == Range(g.connections)

HiddenNodes(g) ==
  (DOMAIN g.nodes) \ (ToSet(g.input_nodes) \cup {g.bias_node} \cup ToSet(g.output_nodes))

\* C5: no two connection genes of a genome reachable from create_initial_genome
\* by mutate calls have the same (in_node, out_node) pair.
C5_NoDuplicateConnection ==
  \A i, j \in DOMAIN genome.connections :
    i # j => Pair(genome.connections[i]) # Pair(genome.connections[j])

\* the step just taken split, once more, a connection that was split before
\* and enabled again
C5_Witness ==
  /\ resplit
  /\ \E i \in DOMAIN genome.connections :
       /\ ~genome.connections[i].enabled
       /\ i \in DOMAIN innovation.node_splits
       /\ innovation.node_splits[i][2] \in DOMAIN genome.connections
       /\ innovation.node_splits[i][3] \in DOMAIN genome.connections

\* C6: no connection gene has an input node as its target, an output node as
\* its source, or the same node at both ends.
C6_EndpointsWellFormed ==
  \A c \in Genes(genome) :
    /\ c.out_node \notin ToSet(genome.input_nodes)
    /\ c.in_node \notin ToSet(genome.output_nodes)
    /\ c.in_node # c.out_node

\* a genome that went through add-node and add-connection: it has a hidden node
\* and a connection that neither genesis nor the split created
C6_Witness ==
  /\ HiddenNodes(genome) # {}
  /\ \E c \in Genes(genome) :
       /\ c.innovation \notin {innovation.node_splits[k][2] : k \in DOMAIN innovation.node_splits}
       /\ c.innovation \notin {innovation.node_splits[k][3] : k \in DOMAIN innovation.node_splits}
       /\ \/ c.in_node \in HiddenNodes(genome)
          \/ c.out_node \in HiddenNodes(genome)

\* C7: the bias node is a node of the genome and no connection gene has it as
\* its target.
C7_BiasOnlySource ==
  /\ genome.bias_node \in DOMAIN genome.nodes
  /\ \A c \in Genes(genome) : c.out_node # genome.bias_node

\* C26: a triggered add-node mutation on a genome with at least one enabled
\* connection chooses an enabled connection, disables it and inserts its
\* split.
C26_AddNodeChoosesEnabled ==
  gen_call.op = "add_node_mutation" =>
    LET before == gen_call.before
        c == gen_call.chosen
    IN  (\E i \in DOMAIN before.connections : before.connections[i].enabled) =>
          /\ before.connections[c].enabled
          /\ ~genome.connections[c].enabled
          /\ c \in DOMAIN innovation.node_splits
          /\ {innovation.node_splits[c][2], innovation.node_splits[c][3]}
               \subseteq DOMAIN genome.connections

\* C27: after an add-node mutation that splits c = (s -> d, weight w), c is
\* in the genome and disabled, the split node the registry holds for c is a
\* node, the connections (s -> n) with weight 1.0 and (n -> d) with weight w
\* are there, enabled, under the registry's two ids, and every other node
\* and connection gene is as before.
C27_AddNodeSplitEffect ==
  (gen_call.op = "add_node_mutation" /\ gen_call.before.connections[gen_call.chosen].enabled) =>
    LET before == gen_call.before
        c == gen_call.chosen
        old == before.connections[c]
        split == innovation.node_splits[c]
        n == split[1]
    IN  /\ genome.connections[c] = [old EXCEPT !.enabled = FALSE]
        /\ DOMAIN genome.nodes = (DOMAIN before.nodes) \cup {n}
        /\ genome.connections[split[2]] =
             [ innovation |-> split[2], in_node |-> old.in_node, out_node |-> n,
               weight |-> 1, enabled |-> TRUE ]
        /\ genome.connections[split[3]] =
             [ innovation |-> split[3], in_node |-> n, out_node |-> old.out_node,
               weight |-> old.weight, enabled |-> TRUE ]
        /\ DOMAIN genome.connections = (DOMAIN before.connections) \cup {split[2], split[3]}
        /\ \A i \in (DOMAIN before.connections) \ {c, split[2], split[3]} :
             genome.connections[i] = before.connections[i]
        /\ \A id \in DOMAIN before.nodes : genome.nodes[id] = before.nodes[id]
        /\ genome.input_nodes = before.input_nodes
        /\ genome.output_nodes = before.output_nodes
        /\ genome.bias_node = before.bias_node

\* an enabled connection of weight 0 that is not a connection of genesis has
\* just been split
C27_Witness ==
  /\ gen_call.op = "add_node_mutation"
  /\ gen_call.before.connections[gen_call.chosen].enabled
  /\ gen_call.before.connections[gen_call.chosen].weight = 0
  /\ gen_call.chosen >= 2

\* C29: no step of mutate changes the input-node list, the output-node list
\* or the bias-node id; the node-id set and the set of connection innovation
\* ids only grow, and every node a step adds is a hidden node.
C29_MutationOnlyGrows ==
  [][/\ genome'.input_nodes = genome.input_nodes
     /\ genome'.output_nodes = genome.output_nodes
     /\ genome'.bias_node = genome.bias_node
     /\ DOMAIN genome.nodes \subseteq DOMAIN genome'.nodes
     /\ DOMAIN genome.connections \subseteq DOMAIN genome'.connections
     /\ (DOMAIN genome'.nodes) \ (DOMAIN genome.nodes) \subseteq HiddenNodes(genome')]_vars

\* mutations have added a hidden node and a connection beside its split
C29_Witness ==
  /\ Cardinality(HiddenNodes(genome)) >= 1
  /\ Cardinality(DOMAIN genome.connections) >= 5

----------------------------------------------------------------------------
(* Claims about the population (SpecPop).                                  *)

RECURSIVE TotalGenomes(_)
\* the number of genomes summed over the species
TotalGenomes(sps) ==
  IF sps = <<>> THEN 0 ELSE Len(Head(sps).genomes) + TotalGenomes(Tail(sps))

\* a call of evolve has returned and no other call is running
AfterEvolve == ppc = "idle" /\ generation >= 1

\* every genome the population holds
AllGenomes ==
  {initial_genome} \cup ToSet(best_genome) \cup ToSet(new_generation)
  \cup UNION {ToSet(species[i].genomes) \cup {species[i].representative}
              \cup ToSet(species[i].best_fitness_genome) : i \in DOMAIN species}

\* C1: after every call of evolve the genomes of all species together number
\* exactly config.population_size.
C1_PopulationSizeKept ==
  AfterEvolve => TotalGenomes(species) = config.population_size

\* evolve returned a generation made of an elite and a crossover child that
\* speciate put into two species
C1_Witness ==
  /\ AfterEvolve
  /\ Len(species) = 2
  /\ "elite" \in ToSet(bred)
  /\ "crossover" \in ToSet(bred)

\* C2: after every call of evolve there is at least one species.
C2_SpeciesNonEmpty ==
  AfterEvolve => Len(species) >= 1

\* the second evolve removed every species as stagnant, so that the whole
\* generation came from the fill loop, and returned
C2_Witness ==
  /\ AfterEvolve
  /\ generation = 2
  /\ Len(bred) = config.population_size
  /\ \A i \in DOMAIN bred : bred[i] = "fill"

\* the genome g is closer than the threshold to the genome r
Compatible(r, g) ==
  FracLess(compatibility_distance(r, g, config), config.compatibility_threshold)

\* the first genome of the new generation goes into the i-th species whichever
\* of their previous members the species take as representatives: it is
\* compatible with every member of that species and with no member of a
\* species before it
FirstOffspringBelongsTo(i) ==
  /\ new_generation # <<>>
  /\ species[i].genomes # <<>>
  /\ \A m \in ToSet(species[i].genomes) : Compatible(m, new_generation[1])
  /\ \A j \in 1 .. (i - 1) :
       \A m \in ToSet(species[j].genomes) : ~Compatible(m, new_generation[1])

\* C16: the speciate step of evolve keeps every species that had members and
\* receives an offspring: it is in the list afterwards with the same id,
\* staleness and best-fitness record, and its representative is one of its
\* previous members.
C16_SpeciesSurviveRespeciation ==
  [][(ppc = "speciate" /\ ppc' = "idle") =>
       \A i \in DOMAIN species :
         FirstOffspringBelongsTo(i) =>
           \E j \in DOMAIN species' :
             /\ species'[j].id = species[i].id
             /\ species'[j].staleness = species[i].staleness
             /\ species'[j].best_fitness = species[i].best_fitness
             /\ species'[j].representative \in ToSet(species[i].genomes)]_vars

\* C17: the removal of stagnant species at the start of evolve leaves at
\* least one species of a list that was not empty.
C17_StagnantRemovalKeepsOne ==
  [][(ppc = "idle" /\ generation' = generation + 1 /\ Len(species) >= 1) =>
       Len(species') >= 1]_vars

\* C3: no step of any sequence of evaluate and evolve calls lowers
\* Population.best_fitness.
C3_BestFitnessNeverDecreases ==
  [][best_fitness' >= best_fitness]_vars

\* the second evolve has updated its statistics on a generation whose every
\* genome scores below the best fitness the first evolve recorded
C3_Witness ==
  /\ generation = 2
  /\ ppc \in {"breed", "fill", "speciate"}
  /\ best_fitness = 2
  /\ species # <<>>
  /\ \A i \in DOMAIN species :
       \A j \in DOMAIN species[i].genomes : species[i].genomes[j].fitness < best_fitness

\* the twin runs are in the same state
C4_TwinRunsIdentical ==
  /\ runs[1].genome = runs[2].genome
  /\ runs[1].innovation = runs[2].innovation

\* C8: every connection gene of every genome is stored under its own
\* innovation id, and that id is the one the shared registry maps the gene's
\* (in_node, out_node) pair to.
C8_InnovationIdsAgree ==
  \A g \in AllGenomes :
    \A i \in DOMAIN g.connections :
      /\ g.connections[i].innovation = i
      /\ Pair(g.connections[i]) \in DOMAIN innovation.connection_innovations
      /\ innovation.connection_innovations[Pair(g.connections[i])] = i

\* a crossover child with a hidden node and a connection that neither
\* genesis nor a split created, next to a genome of another structure
C8_Witness ==
  \E k \in DOMAIN new_generation :
    /\ bred[k] = "crossover"
    /\ HiddenNodes(new_generation[k]) # {}
    /\ \E c \in Genes(new_generation[k]) :
         /\ c.innovation \notin DOMAIN initial_genome.connections
         /\ c.innovation \notin {innovation.node_splits[m][2] : m \in DOMAIN innovation.node_splits}
         /\ c.innovation \notin {innovation.node_splits[m][3] : m \in DOMAIN innovation.node_splits}
    /\ \E g \in AllGenomes :
         DOMAIN g.connections # DOMAIN new_generation[k].connections

----------------------------------------------------------------------------
(* Claims about the compatibility distance (SpecDist).                     *)

\* equality of fractions with positive denominators
FracEq(x, y) == x.n * y.d = y.n * x.d

\* C12: the distance of a genome to itself, to its clone and to its
\* from_existing copy is 0, and so is the distance between two genomes with
\* the same genes, whatever the coefficients.
C12_DistanceToSelfIsZero ==
  applied.op = "compatibility_distance" =>
    /\ applied.to_self.n = 0
    /\ applied.to_clone.n = 0
    /\ applied.to_copy.n = 0
    /\ applied.self.connections = applied.other.connections => applied.forward.n = 0

\* the distance was taken on a genome of more than twenty genes with
\* non-zero weights
C12_Witness ==
  /\ applied.op = "compatibility_distance"
  /\ Cardinality(DOMAIN applied.self.connections) > 20
  /\ \A i \in DOMAIN applied.self.connections : applied.self.connections[i].weight # 0
  /\ applied.self.connections = applied.other.connections

----------------------------------------------------------------------------
(* Claims about crossover (SpecCross).                                     *)

\* C14: when the parents differ in fitness, a gene of the child whose
\* innovation id is in one parent only comes from the more-fit parent.
C14_UnmatchedGenesFromFitterParent ==
  (applied.op = "crossover" /\ applied.self.fitness # applied.other.fitness) =>
    LET more_fit == IF applied.self.fitness > applied.other.fitness
                    THEN applied.self ELSE applied.other
        less_fit == IF applied.self.fitness > applied.other.fitness
                    THEN applied.other ELSE applied.self
    IN  \A child \in applied.children :
          \A i \in DOMAIN child.connections :
            ~(i \in DOMAIN less_fit.connections /\ i \notin DOMAIN more_fit.connections)

\* C15: for an innovation id in both parents, the child can carry the gene of
\* either parent: some outcome has the receiver's version and some outcome
\* the other parent's.
C15_MatchingGeneFromEitherParent ==
  applied.op = "crossover" =>
    \A i \in (DOMAIN applied.self.connections) \cap (DOMAIN applied.other.connections) :
      /\ \E child \in applied.children :
           child.connections[i] = applied.self.connections[i]
      /\ \E child \in applied.children :
           child.connections[i] = applied.other.connections[i]

----------------------------------------------------------------------------
(* Claims about the registry alone (SpecReg).                              *)

\* C11: no registry call lowers a counter; the k-th pair ever requested holds
\* connection id k-1, so distinct pairs hold distinct ids; and every id handed
\* out is below its counter.
C11_CountersMonotonicIdsInRequestOrder ==
  /\ innovation.node_innovation_counter >= reg_call.before.node_innovation_counter
  /\ innovation.connection_innovation_counter
       >= reg_call.before.connection_innovation_counter
  /\ DOMAIN innovation.connection_innovations = ToSet(requested)
  /\ \A k \in DOMAIN requested : innovation.connection_innovations[requested[k]] = k - 1
  /\ \A p, q \in DOMAIN innovation.connection_innovations :
       p # q => innovation.connection_innovations[p] # innovation.connection_innovations[q]
  /\ \A p \in DOMAIN innovation.connection_innovations :
       innovation.connection_innovations[p] < innovation.connection_innovation_counter
  /\ reg_call.op = "node" => reg_call.out[1] < innovation.node_innovation_counter
  /\ reg_call.op = "conn" => reg_call.out[1] < innovation.connection_innovation_counter
  /\ reg_call.op = "split" =>
       /\ reg_call.out[1] < innovation.node_innovation_counter
       /\ reg_call.out[2] < innovation.connection_innovation_counter
       /\ reg_call.out[3] < innovation.connection_innovation_counter

\* three pairs were requested, the last two by a split, and the call just
\* made repeated an earlier request
C11_Witness ==
  /\ Len(requested) >= 3
  /\ DOMAIN innovation.node_splits # {}
  /\ reg_call.repeat
  /\ reg_call.op = "conn"

\* C9: a request for a pair returns the id its first request returned, and a
\* repeated request leaves the registry as it was.
C9_ConnectionInnovationIdempotent ==
  reg_call.op = "conn" =>
    /\ reg_call.out[1] = first_conn[reg_call.args]
    /\ reg_call.repeat => innovation = reg_call.before

\* a pair is requested again after other pairs were recorded in between
C9_Witness ==
  /\ reg_call.op = "conn"
  /\ reg_call.repeat
  /\ innovation.connection_innovation_counter > reg_call.out[1] + 1

\* C10: the first split of a connection id issues one node id and two connection
\* ids; every later split of it returns the same triple and advances no counter.
C10_NodeSplitIdempotent ==
  reg_call.op = "split" =>
    LET before == reg_call.before
    IN  /\ reg_call.out = first_split[reg_call.args[1]]
        /\ IF reg_call.repeat
           THEN /\ innovation.node_innovation_counter = before.node_innovation_counter
                /\ innovation.connection_innovation_counter
                     = before.connection_innovation_counter
           ELSE /\ innovation.node_innovation_counter = before.node_innovation_counter + 1
                /\ innovation.connection_innovation_counter
                     = before.connection_innovation_counter + 2
                /\ reg_call.out = << before.node_innovation_counter,
                                     before.connection_innovation_counter,
                                     before.connection_innovation_counter + 1 >>

\* a connection is split again after another node was issued in between
C10_Witness ==
  /\ reg_call.op = "split"
  /\ reg_call.repeat
  /\ innovation.node_innovation_counter > reg_call.out[1] + 1

----------------------------------------------------------------------------
(* Claims about the evaluators (SpecNet).                                  *)

\* every connection of g joins two nodes of g
WellFormed(g) ==
  \A i \in DOMAIN g.connections :
    /\ g.connections[i].in_node \in DOMAIN g.nodes
    /\ g.connections[i].out_node \in DOMAIN g.nodes

\* the enabled connections of g as edges
EnabledEdges(g) == {Pair(g.connections[i]) : i \in {j \in DOMAIN g.connections : g.connections[j].enabled}}

RECURSIVE ReachableFrom(_, _)
\* the nodes a path of one or more edges of E leads to from the set S
ReachableFrom(E, S) ==
  LET more == S \cup {e[2] : e \in {f \in E : f[1] \in S}}
  IN  IF more = S THEN S ELSE ReachableFrom(E, more)

\* there is a path of one or more edges of E from a to b
Path(E, a, b) == b \in ReachableFrom(E, {e[2] : e \in {f \in E : f[1] = a}})

\* the edge e lies on a directed cycle of E
OnCycle(E, e) == e \in E /\ (e[2] = e[1] \/ Path(E, e[2], e[1]))

\* C18: FeedforwardNetwork::new returns a network for every well-formed
\* genome, cyclic or not; an enabled connection is left out of
\* used_connections exactly when it lies on a directed cycle of the enabled
\* connections, and every node that is on no cycle is in sorted_nodes.
C18_OnlyCycleConnectionsExcluded ==
  (applied.op = "new" /\ applied.kind = "feedforward" /\ WellFormed(applied.genome)) =>
    LET E == EnabledEdges(applied.genome)
    IN  /\ applied.result = "Ok"
        /\ \A e \in E : (e \notin network.used_connections) <=> OnCycle(E, e)
        /\ \A n \in DOMAIN applied.genome.nodes :
             ~Path(E, n, n) => n \in ToSet(network.sorted_nodes)

\* C19: an activate call of either evaluator with a wrong number of inputs
\* returns InvalidInput and leaves the evaluator as it was, so that every
\* later call returns what it would have returned without the failed call.
C19_WrongInputLengthHasNoEffect ==
  [][(applied'.op = "activate" /\ applied' # applied
        /\ Len(applied'.inputs) # Len(network.genome.input_nodes)) =>
       /\ applied'.result = "InvalidInput"
       /\ network' = network
       /\ network.kind = "ctrnn" =>
            /\ network'.states = network.states
            /\ \A inputs \in NetInputs :
                 CtrnnNetwork_activate(network', inputs) = CtrnnNetwork_activate(network, inputs)
       /\ network.kind = "feedforward" =>
            \A inputs \in NetInputs :
              FeedforwardNetwork_activate(network', inputs)
                = FeedforwardNetwork_activate(network, inputs)]_vars

\* a CTRNN whose states a successful call has moved was called with a wrong
\* number of inputs
C19_Witness ==
  /\ applied.op = "activate"
  /\ applied.kind = "ctrnn"
  /\ applied.calls = 2
  /\ applied.result = "InvalidInput"
  /\ \E k \in DOMAIN network.states : network.states[k].n # 0

\* C20: building an evaluator of either kind from a genome with a connection
\* whose in_node or out_node is no node returns InvalidGenome.
C20_IllFormedGenomeRejected ==
  (applied.op = "new" /\ ~WellFormed(applied.genome)) => applied.result = "InvalidGenome"

----------------------------------------------------------------------------
(* Claims about the speciation manager (SpecMgr).                          *)

\* C21: adjust_threshold(n) multiplies the threshold by 1.3 when
\* n > 2 * target, by 0.95 when 2 * n < target, leaves it alone otherwise,
\* and changes no other field.
C21_AdjustThresholdCases ==
  mgr_call.op = "adjust_threshold" =>
    LET n == mgr_call.current_species_count
        target == mgr_call.before.target_species_count
        T == mgr_call.before.compatibility_threshold
        expected == IF n > 2 * target THEN [n |-> T.n * 13, d |-> T.d * 10]
                    ELSE IF 2 * n < target THEN [n |-> T.n * 19, d |-> T.d * 20]
                    ELSE T
    IN  /\ FracEq(manager.compatibility_threshold, expected)
        /\ manager.species_counter = mgr_call.before.species_counter
        /\ manager.target_species_count = mgr_call.before.target_species_count

----------------------------------------------------------------------------
(* Claims about parallel evaluation (SpecPar).                             *)

\* every genome has been taken and every worker has written its value
ParDone ==
  /\ work.fitness_fn # "none"
  /\ work.queue = {}
  /\ \A w \in DOMAIN workers : workers[w].pc = "idle"

\* the species with every fitness set to 0: everything but the fitness scalars
WithoutFitness(sps) == evaluate(sps, [slot \in Slots(sps) |-> 0])

----------------------------------------------------------------------------
(* Claims about parsimony pressure (SpecPars).                             *)

\* C24: apply_parsimony_pressure returns the raw fitness when it is <= 0 and
\* when the number of hidden nodes (neither input, bias nor output) is
\* <= complexity_threshold; it changes the fitness only when the hidden
\* nodes exceed the threshold, and then never to less than the floor.
C24_ParsimonyOnlyAboveThreshold ==
  applied.op = "apply_parsimony_pressure" =>
    LET h == Cardinality(HiddenNodes(applied.genome))
        unchanged == FracEq(applied.result, applied.original_fitness)
    IN  /\ applied.original_fitness.n <= 0 => unchanged
        /\ h <= applied.config.complexity_threshold => unchanged
        /\ ~unchanged =>
             /\ h > applied.config.complexity_threshold
             /\ ~FracLess(applied.result, ParsimonyFloor)

----------------------------------------------------------------------------
(* Claims about the CTRNN with zero weights (SpecZero).                    *)

\* C25: in a CTRNN whose weights and biases are all 0, reset_states followed
\* by one activate with an all-zero input leaves the state of every node
\* but the bias node at 0, whatever the activation functions.
C25_ZeroWeightsStayAtZero ==
  (applied.op = "activate" /\ applied.previous = "reset_states" /\ applied.inputs = <<0>>) =>
    \A id \in DOMAIN network.genome.nodes :
      id # network.genome.bias_node =>
        network.states[network.node_to_index[id] + 1].n = 0

\* the genomes x and y have the same nodes and the same connection genes
\* (ids, endpoints, weights and enabled flags)
SameGenes(x, y) == x.nodes = y.nodes /\ x.connections = y.connections

\* the number of genomes step 3 of reproduce has copied before it comes to
\* the i-th species
RECURSIVE ElitesBefore(_, _, _)
ElitesBefore(sps, i, cfg) ==
  IF i <= 1 THEN 0
  ELSE ElitesBefore(sps, i - 1, cfg) +
       (IF Len(sps[i - 1].genomes) >= cfg.elitism THEN cfg.elitism ELSE 0)

\* C30: while evolve breeds (the species are those that survived the removal
\* of stagnant ones), every species with at least `elitism` members whose turn
\* in step 3 comes before the population cap is reached has `elitism` members
\* of highest fitness that are each in the new generation, as elite copies
\* with the same nodes, connections, weights and enabled flags; and when
\* evolve has ended every elite copy is a member of some species, unaltered.
C30_ElitesCopiedUnmutated ==
  /\ (ppc \in {"breed", "fill", "speciate"} /\ config.elitism > 0) =>
       \A i \in DOMAIN species :
         (/\ Len(species[i].genomes) >= config.elitism
          /\ ElitesBefore(species, i, config) + config.elitism <= config.population_size) =>
           \E K \in SUBSET (DOMAIN species[i].genomes) :
             /\ Cardinality(K) = config.elitism
             /\ \A k \in K, j \in (DOMAIN species[i].genomes) \ K :
                  species[i].genomes[j].fitness <= species[i].genomes[k].fitness
             /\ \E at \in [K -> DOMAIN new_generation] :
                  /\ \A k1, k2 \in K : at[k1] = at[k2] => k1 = k2
                  /\ \A k \in K :
                       /\ bred[at[k]] = "elite"
                       /\ SameGenes(new_generation[at[k]], species[i].genomes[k])
  /\ (ppc = "idle" /\ generation >= 1) =>
       \A e \in DOMAIN new_generation :
         bred[e] = "elite" =>
           \E slot \in Slots(species) :
             SameGenes(species[slot[1]].genomes[slot[2]], new_generation[e])

\* evolve has copied the fitter of two members of unequal fitness of a
\* species whose genomes differ
C30_Witness ==
  /\ ppc \in {"breed", "fill", "speciate"}
  /\ \E i \in DOMAIN species :
       /\ Len(species[i].genomes) = 2
       /\ species[i].genomes[1].fitness > species[i].genomes[2].fitness
       /\ ~SameGenes(species[i].genomes[1], species[i].genomes[2])
       /\ \E e \in DOMAIN new_generation :
            /\ bred[e] = "elite"
            /\ SameGenes(new_generation[e], species[i].genomes[1])

\* the representative and the members of every species of a list
Groups(sps) ==
  [i \in DOMAIN sps |->
     [representative |-> sps[i].representative, genomes |-> sps[i].genomes]]

RECURSIVE FirstFit(_, _)
\* the groups after the offspring from the k-th on have each joined the first
\* group of the list whose representative is nearer than the threshold, or
\* opened a group of their own at the end of the list
FirstFit(groups, k) ==
  IF k > Len(new_generation) THEN groups
  ELSE LET member == new_generation[k]
           fits == {i \in DOMAIN groups : Compatible(groups[i].representative, member)}
       IN  IF fits # {}
           THEN FirstFit([groups EXCEPT ![Min(fits)].genomes = Append(@, member)], k + 1)
           ELSE FirstFit(Append(groups, [representative |-> member,
                                         genomes |-> <<member>>]), k + 1)

\* C31: the speciate step of evolve puts every offspring into the first
\* species in stored order, the species of the previous generation first and
\* then those made earlier in the pass, whose representative is nearer than
\* the threshold, or else into a new species of which it is representative
\* and first member; the species left empty are dropped.
C31_OffspringJoinFirstCompatibleSpecies ==
  [][(ppc = "speciate" /\ ppc' = "idle") =>
       Groups(species') =
         SelectSeq(FirstFit([i \in DOMAIN species |->
                               [representative |-> species[i].representative,
                                genomes |-> <<>>]], 1),
                   LAMBDA group : group.genomes # <<>>)]_vars

\* C35: evaluate gives every genome of every species the fitness the fitness
\* function returns for it and changes nothing else: the species list, the
\* members, their order and genes, the representatives, staleness and
\* best-fitness records, the generation counter, the global best, the
\* configuration with its threshold, the species counter and the innovation
\* registry stay as they were.
C35_EvaluateOnlySetsFitness ==
  [][(ppc = "idle" /\ ppc' = "idle" /\ applied'.op = "evaluate") =>
       /\ DOMAIN species' = DOMAIN species
       /\ \A i \in DOMAIN species :
            /\ DOMAIN species'[i].genomes = DOMAIN species[i].genomes
            /\ species'[i] = [species[i] EXCEPT !.genomes = species'[i].genomes]
            /\ \A j \in DOMAIN species[i].genomes :
                 /\ species'[i].genomes[j].fitness = applied'.fitness_fn[<<i, j>>]
                 /\ species'[i].genomes[j] =
                      [species[i].genomes[j] EXCEPT !.fitness = applied'.fitness_fn[<<i, j>>]]
       /\ UNCHANGED <<innovation, species_counter, generation, config, best_genome,
                      best_fitness, initial_genome>>]_vars

\* two species have been evaluated, and a member of the second has got a
\* fitness other than the one it was bred with
C35_Witness ==
  /\ ppc = "idle"
  /\ applied.op = "evaluate"
  /\ Len(species) = 2
  /\ species[2].genomes[1].fitness = 2
  /\ species[2].representative.fitness = 0

\* the ids of the species of a list
SpeciesIds(sps) == {sps[i].id : i \in DOMAIN sps}

\* C36: species ids are never reused: the counter never decreases, the
\* species of a list have pairwise different ids, all of them below the
\* counter, and a species that is new in the list has an id that no species
\* had before, the counter of that time or more.
C36_SpeciesIdsNeverReused ==
  [][/\ species_counter' >= species_counter
     /\ Cardinality(SpeciesIds(species)) = Len(species)
     /\ Cardinality(SpeciesIds(species')) = Len(species')
     /\ \A id \in SpeciesIds(species) : id < species_counter
     /\ \A id \in SpeciesIds(species') :
          /\ id < species_counter'
          /\ id \in SpeciesIds(species) \/ id >= species_counter]_vars

\* the second evolve has made two more species, after the two of the first
C36_Witness ==
  /\ ppc = "idle"
  /\ generation = 2
  /\ SpeciesIds(species) = {3, 4}
  /\ species_counter = 5

\* the genomes of the population and the genome under mutation
EveryGenome == AllGenomes \cup {genome}

\* C37: in every genome made by genesis, mutation and crossover the
\* connection_set is exactly the set of the (in_node, out_node) pairs of the
\* genes of the connection map.
C37_ConnectionSetMatchesGenes ==
  \A g \in EveryGenome : g.connection_set = {Pair(gene) : gene \in Genes(g)}

\* a child of two parents of different genes holds a gene that the parent it
\* was copied from has not
C37_Witness ==
  \E e \in DOMAIN new_generation :
    /\ bred[e] = "crossover"
    /\ \E i \in DOMAIN species :
         /\ Len(species[i].genomes) = 2
         /\ DOMAIN species[i].genomes[1].connections # DOMAIN species[i].genomes[2].connections
         /\ \A m \in DOMAIN species[i].genomes :
              ~(DOMAIN new_generation[e].connections \subseteq
                  DOMAIN species[i].genomes[m].connections)

\* C38: in every genome made by genesis, mutation and crossover both ends of
\* every connection gene are keys of the node map, so that the feedforward
\* constructor does not panic and the CTRNN constructor keeps every enabled
\* connection.
C38_EndpointsAreNodes ==
  \A g \in EveryGenome :
    /\ \A gene \in Genes(g) : gene.in_node \in DOMAIN g.nodes /\ gene.out_node \in DOMAIN g.nodes
    /\ \A hasher \in Hashers :
         /\ FeedforwardNetwork_new(g, hasher).result = "Ok"
         /\ Len(PreprocessConnections(g, KeyOrder(DOMAIN g.connections, hasher),
                                      NodeToIndex(g, hasher)))
              = Cardinality({i \in DOMAIN g.connections : g.connections[i].enabled})

\* a child by crossover has a hidden node and a connection from it
C38_Witness ==
  \E e \in DOMAIN new_generation :
    /\ bred[e] = "crossover"
    /\ \E gene \in Genes(new_generation[e]) :
         gene.in_node \in HiddenNodes(new_generation[e])

\* C39: a global best genome, when there is one, has the global best fitness
\* as its fitness, which is above 0; the two change only together; and the
\* global best genome appears only when a member has a fitness above 0.
C39_BestGenomeMatchesBestFitness ==
  [][/\ best_genome # None =>
          best_genome[1].fitness = best_fitness /\ best_fitness > 0
     /\ best_genome' # None =>
          best_genome'[1].fitness = best_fitness' /\ best_fitness' > 0
     /\ (best_genome' # best_genome) <=> (best_fitness' # best_fitness)
     /\ (best_genome = None /\ best_genome' # None) =>
          \E slot \in Slots(species) : species[slot[1]].genomes[slot[2]].fitness > 0
     /\ best_genome = None => best_fitness = 0]_vars

\* during the second evolve there is a global best genome of fitness 2 and an
\* elite of that fitness
C39_Witness ==
  /\ generation = 2
  /\ best_genome # None
  /\ best_fitness = 2
  /\ \E e \in DOMAIN new_generation : bred[e] = "elite" /\ new_generation[e].fitness = 2

----------------------------------------------------------------------------
(* A claim about the bias node in the feedforward evaluator (SpecNet).     *)

\* the network with every connection out of the bias node given the weight w
WithBiasWeights(net, w) ==
  [net EXCEPT !.genome.connections =
     [i \in DOMAIN @ |->
        IF @[i].in_node = net.genome.bias_node THEN [@[i] EXCEPT !.weight = w] ELSE @[i]]]

\* no enabled connection that the network uses ends in the bias node
BiasWithoutInput(net) ==
  \A gene \in Genes(net.genome) :
    ~(/\ gene.out_node = net.genome.bias_node
      /\ gene.enabled
      /\ Pair(gene) \in net.used_connections)

----------------------------------------------------------------------------
(* Claims about one species (SpecSpecies).                                 *)

\* C32: update_best_fitness on a species with members: when the greatest
\* member fitness exceeds the recorded best, the recorded best becomes that
\* fitness, the exemplar and the representative become a member of that
\* fitness and staleness becomes 0; otherwise staleness grows by one and the
\* best, the exemplar and the representative stay; the best never decreases.
C32_UpdateBestFitness ==
  (applied.op = "update_best_fitness" /\ applied.before.genomes # <<>>) =>
    LET old == applied.before
        new == applied.species
        top == Max({old.genomes[k].fitness : k \in DOMAIN old.genomes})
    IN  /\ top > old.best_fitness =>
             /\ new.best_fitness = top
             /\ \E k \in DOMAIN old.genomes :
                  /\ old.genomes[k].fitness = top
                  /\ new.best_fitness_genome = Some(old.genomes[k])
                  /\ new.representative = old.genomes[k]
             /\ new.staleness = 0
        /\ top <= old.best_fitness =>
             /\ new.staleness = old.staleness + 1
             /\ new.best_fitness = old.best_fitness
             /\ new.best_fitness_genome = old.best_fitness_genome
             /\ new.representative = old.representative
        /\ new.best_fitness >= old.best_fitness

\* a species whose best member only equals the recorded best has been updated
C32_Witness ==
  /\ applied.op = "update_best_fitness"
  /\ Len(applied.before.genomes) >= 2
  /\ applied.before.best_fitness = 1
  /\ Max({applied.before.genomes[k].fitness : k \in DOMAIN applied.before.genomes}) = 1
  /\ applied.species.staleness = applied.before.staleness + 1

\* C34: cull on n members keeps ceil(n / 2) of them, returns that number,
\* and no member kept has a lower fitness than a member removed.
C34_CullKeepsBestHalf ==
  applied.op = "cull" =>
    LET old == applied.before.genomes
        new == applied.species.genomes
        n == Len(old)
    IN  /\ 2 * Len(new) \in {n, n + 1}
        /\ applied.out = Len(new)
        /\ \E kept \in SUBSET (DOMAIN old) :
             /\ Cardinality(kept) = Len(new)
             /\ \E at \in [DOMAIN new -> kept] :
                  /\ \A i, j \in DOMAIN new : at[i] = at[j] => i = j
                  /\ \A i \in DOMAIN new : new[i] = old[at[i]]
             /\ \A k \in kept, r \in (DOMAIN old) \ kept :
                  old[k].fitness >= old[r].fitness

\* three members of different fitness, the fittest first, have been culled
C34_Witness ==
  /\ applied.op = "cull"
  /\ Len(applied.before.genomes) = 3
  /\ applied.before.genomes[1].fitness > applied.before.genomes[2].fitness
  /\ applied.before.genomes[2].fitness > applied.before.genomes[3].fitness
  /\ applied.out = 2

----------------------------------------------------------------------------
(* Claims about breeding (SpecBreed).                                      *)

\* every parent of the child is among some `count` members of the species
\* that no other member exceeds in fitness
ParentsAmongTop(count) ==
  LET members == applied.species.genomes
  IN  \E top \in SUBSET (DOMAIN members) :
        /\ Cardinality(top) = count
        /\ \A k \in top, r \in (DOMAIN members) \ top :
             members[k].fitness >= members[r].fitness
        /\ \A p \in DOMAIN applied.parents : \E k \in top : applied.parents[p] = members[k]

\* ceil(|members| * survival_threshold)
BreedCutoff ==
  Ceil(Len(applied.species.genomes) * applied.cfg.survival_threshold.n,
       applied.cfg.survival_threshold.d)

----------------------------------------------------------------------------
(* Claims about genesis (SpecGenesis).                                     *)

\* C28: create_initial_genome(I, O) on a fresh registry gives I input
\* nodes, one bias node and O output nodes with pairwise distinct ids and no
\* other node, and exactly (I + 1) * O connection genes, all enabled, one
\* from each input and from the bias to each output, with pairwise distinct
\* innovation ids.
C28_GenesisShape ==
  applied.op = "create_initial_genome" =>
    LET g == applied.genome
        sources == ToSet(g.input_nodes) \cup {g.bias_node}
        ids == sources \cup ToSet(g.output_nodes)
        genes == {g.connections[i] : i \in DOMAIN g.connections}
    IN  /\ Len(g.input_nodes) = applied.input_size
        /\ Len(g.output_nodes) = applied.output_size
        /\ Cardinality(ids) = applied.input_size + 1 + applied.output_size
        /\ DOMAIN g.nodes = ids
        /\ Cardinality(DOMAIN g.connections) = (applied.input_size + 1) * applied.output_size
        /\ \A i \in DOMAIN g.connections :
             g.connections[i].enabled /\ g.connections[i].innovation = i
        /\ {Pair(gene) : gene \in genes} = sources \X ToSet(g.output_nodes)
        /\ Cardinality({gene.innovation : gene \in genes}) =
             (applied.input_size + 1) * applied.output_size

\* the genome of two inputs and two outputs has been made
C28_Witness ==
  /\ applied.op = "create_initial_genome"
  /\ applied.input_size = 2
  /\ applied.output_size = 2
  /\ Cardinality(DOMAIN applied.genome.connections) = 6

====
